---- MODULE Spec2Model ----
(***************************************************************************)
(* Model of cogs/Music.py: the per-guild queue, the playback session, the  *)
(* vote-gated commands and the SQLite persistence of the queue.            *)
(***************************************************************************)
EXTENDS Integers, Sequences, FiniteSets, TLC

\* ------------------------------------------------------------------------
\* Bounds of the model
\* ------------------------------------------------------------------------
MaxQueue == 2      \* play is accepted by the model while the queue is shorter
MaxStarts == 1     \* tracks started (vc.play calls) per guild
MaxRaceStarts == 2 \* the same, where resolutions are in flight (SpecRace)
MaxPending == 1    \* 'after' callbacks scheduled and not yet run, per guild
MaxResolving == 1  \* from_url resolutions in flight, per guild
MaxExtras == 1     \* passive non-bot listeners that never issue a command
MaxVotes == 1      \* votes recorded at the same time in one guild (Spec)
MaxSkipVotes == 2  \* the same, for skip, pause and stop (SpecSkip)
MaxListeners == 4  \* listeners a vote-gated command may find in the channel
MaxReplays == 3    \* tracks started per guild where tracks are replayed (SpecLoop)
MaxTicks == 5      \* runs of the inactivity ticker (SpecIdle)
MaxBots == 1       \* other bots in the voice channel (SpecAlone)
MaxTasks == 3      \* tasks of one user in one guild (SpecTasks)
MaxRequests == 2    \* play requests of one guild where searches are in flight (SpecSearch)
MaxBackground == 1  \* playlist entries still to be searched in the background, per guild
MaxIndices == 2    \* task numbers given to one remove_task command

\* ------------------------------------------------------------------------
\* Principals and tenants
\* ------------------------------------------------------------------------
Guilds == {"g1", "g2"}
G2 == "g2"
G1 == "g1"
BotId == "bot"                   \* bot.user.id
Admin == "admin"                 \* the member with guild_permissions.administrator
Users == {"admin", "u2", "u3", "u4"}   \* non-bot members that issue commands
Administrators == {Admin}
None == "None"                   \* Python None for string-valued fields
NoUser == "NoUser"                     \* Python None where a Member is expected
Modes == {"song", "queue", "off"}

\* ------------------------------------------------------------------------
\* Python dicts: functions whose domain is the set of keys present
\* ------------------------------------------------------------------------
Get(d, k) == IF k \in DOMAIN d THEN d[k] ELSE None

GetDefault(d, k, default) == IF k \in DOMAIN d THEN d[k] ELSE default

\* data.get('requester'): a Member (its id) or None
GetRequester(d) == IF "requester" \in DOMAIN d THEN d["requester"] ELSE NoUser

\* ------------------------------------------------------------------------
\* What yt-dlp's extract_info returns (the external track resolver)
\* ------------------------------------------------------------------------
TrackA == [webpage_url |-> "wA", title |-> "tA", thumbnail |-> "hA",
           duration |-> 212, uploader |-> "uA", url |-> "sA"]

\* a result without a direct stream URL
TrackB == [webpage_url |-> "wB", title |-> "tB", thumbnail |-> "hB",
           duration |-> 180, uploader |-> "uB"]

\* an ephemeral result: no webpage_url and no title
TrackC == [thumbnail |-> "hC", duration |-> 60, uploader |-> "uC", url |-> "sC"]

\* a search without result: extract_info returns no entry
NoData == [entries |-> <<>>]

Catalog == {TrackA, TrackB}

FullCatalog == {TrackA, TrackB, TrackC}

\* ------------------------------------------------------------------------
\* class Song
\* ------------------------------------------------------------------------
Song(data, requester) ==
    [data |-> data,
     url |-> Get(data, "webpage_url"),
     title |-> GetDefault(data, "title", "Unknown Title"),
     thumbnail |-> Get(data, "thumbnail"),
     duration |-> data["duration"],
     uploader |-> Get(data, "uploader"),
     requester |-> requester,
     requester_id |-> requester,
     stream_url |-> Get(data, "url")]

to_dict(song) ==
    [url |-> song.url,
     title |-> song.title,
     thumbnail |-> song.thumbnail,
     duration |-> song.duration,
     uploader |-> song.uploader,
     requester_id |-> song.requester_id]

\* _search_and_create_song: data['requester'] = requester; Song(data, requester)
SearchSong(track, requester) == Song(track @@ ("requester" :> requester), requester)

\* [f(x) for x in seq]
Map(seq, F(_)) == [i \in 1..Len(seq) |-> F(seq[i])]

\* queue_data = [song.to_dict() for song in queue]; json.dumps keeps the
\* keys, the values and the order, so the stored text is this array.
QueueData(queue) == Map(queue, to_dict)

\* guild.get_member(song_dict['requester_id']) or self.bot.user
LoadRequester(song_dict, guild_members) ==
    IF song_dict.requester_id \in guild_members THEN song_dict.requester_id ELSE BotId

\* one row of load_queues_from_db
LoadSong(song_dict, guild_members) == Song(song_dict, LoadRequester(song_dict, guild_members))

LoadQueue(queue_data, guild_members) ==
    [i \in 1..Len(queue_data) |-> LoadSong(queue_data[i], guild_members)]

\* ------------------------------------------------------------------------
\* The task board (cogs/TaskBoard.py): dictionaries, Task, FileManager and
\* the commands add_task and remove_task
\* ------------------------------------------------------------------------
\* {}
EmptyDict == [k \in {} |-> <<>>]

\* d.get(k, default)
DictGet(d, k, default) == IF k \in DOMAIN d THEN d[k] ELSE default

\* d[k] = v
DictSet(d, k, v) == [x \in DOMAIN d \cup {k} |-> IF x = k THEN v ELSE d[x]]

\* del d[k]
DictDel(d, k) == [x \in DOMAIN d \ {k} |-> d[x]]

\* Task(user_id, task, due_date): a new task is not finished
Task(user_id, task) == [user_id |-> user_id, task |-> task, finished |-> FALSE]

\* Task.to_dict, one row of tasks.json
TaskToDict(t) == [user_id |-> t.user_id, task |-> t.task, finished |-> t.finished]

\* FileManager.save_tasks: what is written to tasks.json
save_tasks(all_tasks) ==
    [g \in DOMAIN all_tasks |->
        [u \in DOMAIN all_tasks[g] |->
            [i \in 1..Len(all_tasks[g][u]) |-> TaskToDict(all_tasks[g][u][i])]]]

\* self.tasks.get(guild_id, {}).get(user_id); None is the empty list here
user_tasks(all_tasks, guild_id, user_id) ==
    DictGet(DictGet(all_tasks, guild_id, EmptyDict), user_id, <<>>)

\* one message sent by a task board command
Msg(kind, index, names) == [kind |-> kind, index |-> index, names |-> names]

\* add_task: setdefault, append, save, confirm
add_task(tb, guild_id, member, description, date_ok) ==
    IF ~date_ok
    THEN [tasks |-> tb.tasks, saved_tasks |-> tb.saved_tasks, saves |-> 0,
          sends |-> <<Msg("InvalidDate", 0, <<>>)>>]
    ELSE LET of_guild == DictGet(tb.tasks, guild_id, EmptyDict)
             of_user == Append(DictGet(of_guild, member, <<>>), Task(member, description))
             t1 == DictSet(tb.tasks, guild_id, DictSet(of_guild, member, of_user))
         IN [tasks |-> t1, saved_tasks |-> save_tasks(t1), saves |-> 1,
             sends |-> <<Msg("TaskAdded", 0, <<description>>)>>]

\* user_tasks.pop(index - 1) leaves the list without its index-th element
pop_task(list, index) == SubSeq(list, 1, index - 1) \o SubSeq(list, index + 1, Len(list))

\* reversed(list)
Reversed(list) == [i \in 1..Len(list) |-> list[Len(list) + 1 - i]]

\* sorted(list(set(indices))): ascending
RECURSIVE sorted_forward(_)
sorted_forward(S) ==
    IF S = {} THEN <<>>
    ELSE LET m == CHOOSE x \in S : \A y \in S : x <= y
         IN <<m>> \o sorted_forward(S \ {m})

\* sorted(list(set(indices)), reverse=True): descending
RECURSIVE sorted_reverse(_)
sorted_reverse(S) ==
    IF S = {} THEN <<>>
    ELSE LET m == CHOOSE x \in S : \A y \in S : y <= x
         IN <<m>> \o sorted_reverse(S \ {m})

\* the for loop of remove_task: pop a valid index, report an invalid one
RECURSIVE remove_loop(_, _)
remove_loop(order, acc) ==
    IF order = <<>> THEN acc
    ELSE LET index == Head(order)
         IN IF 1 <= index /\ index <= Len(acc.user_tasks)
            THEN remove_loop(Tail(order),
                     [acc EXCEPT !.user_tasks = pop_task(@, index),
                                 !.removed_tasks = Append(@, acc.user_tasks[index].task)])
            ELSE remove_loop(Tail(order),
                     [acc EXCEPT !.sends = Append(@, Msg("InvalidTaskNumber", index, <<>>))])

\* remove_task
remove_task(tb, guild_id, user_id, indices) ==
    LET mine == user_tasks(tb.tasks, guild_id, user_id)
        same(sends) == [tasks |-> tb.tasks, saved_tasks |-> tb.saved_tasks,
                        saves |-> 0, sends |-> sends]
    IN IF Len(indices) = 0 THEN same(<<Msg("Usage", 0, <<>>)>>)
       ELSE IF Len(mine) = 0 THEN same(<<Msg("NoTasks", 0, <<>>)>>)
       ELSE LET done == remove_loop(sorted_reverse({indices[i] : i \in 1..Len(indices)}),
                            [user_tasks |-> mine, removed_tasks |-> <<>>, sends |-> <<>>])
                t1 == DictSet(tb.tasks, guild_id,
                          DictSet(tb.tasks[guild_id], user_id, done.user_tasks))
                t2 == IF Len(user_tasks(t1, guild_id, user_id)) = 0
                      THEN DictSet(t1, guild_id, DictDel(t1[guild_id], user_id))
                      ELSE t1
                t3 == IF DOMAIN DictGet(t2, guild_id, EmptyDict) = {}
                      THEN DictDel(t2, guild_id)
                      ELSE t2
            IN IF Len(done.removed_tasks) = 0 THEN same(done.sends)
               ELSE [tasks |-> t3, saved_tasks |-> save_tasks(t3), saves |-> 1,
                     sends |-> Append(done.sends,
                                  Msg("Removed", 0, Reversed(done.removed_tasks)))]

\* ------------------------------------------------------------------------
\* State: the dictionaries of class Music, the queues table, the voice
\* client of each guild, and the coroutines suspended at an await
\* ------------------------------------------------------------------------
VARIABLES
    queues,            \* self.queues: guild -> list of Song
    db,                \* table queues: guild -> stored array (<<>> = no row)
    connected,         \* guild.voice_client exists and is connected
    player,            \* voice_client._player: the source and its status
    loop_states,       \* self.loop_states (missing = 'off')
    song_history,      \* self.song_history: deque(maxlen)
    inactive_since,    \* self.inactive_since (NoMark = missing)
    skip_votes, pause_votes, stop_votes, clear_votes,
    shuffle_votes, disconnect_votes,
    remove_votes,      \* set of <<number, user>>: user is in remove_votes[g][number]
    loop_votes,        \* set of <<mode, user>>: user is in loop_votes[g][mode]
    pending_end,       \* on_song_end tasks created by 'after', not yet run
    resolving,         \* play_next coroutines suspended in YTDLSource.from_url
    starts,            \* number of vc.play calls that started a track
    in_voice,          \* non-bot members in the guild's voice channel
    extras,            \* further non-bot listeners in that channel
    other_bots,        \* bots other than this one in that channel
    members,           \* members of the guild (guild.get_member finds them)
    now,               \* time.time()
    tasks,             \* TaskBoard.tasks: guild -> user -> list of Task
    saved_tasks,       \* content of tasks.json (FileManager)
    searching,         \* play coroutines suspended in their search, per guild
    playlist,          \* entries _process_playlist_in_background has still to search
    announcing         \* guilds for which auto_disconnect is suspended in channel.send

vars == <<queues, db, connected, player, loop_states, song_history,
          inactive_since, skip_votes, pause_votes, stop_votes, clear_votes,
          shuffle_votes, disconnect_votes, remove_votes, loop_votes,
          pending_end, resolving, starts,
          in_voice, extras, other_bots, members, now, tasks, saved_tasks, searching, playlist,
          announcing>>

INACTIVITY_TIMEOUT_SECONDS == 120
TickSeconds == 30     \* @tasks.loop(seconds=30)
SONG_HISTORY_MAXLEN == 20
NoMark == -1
NoPlayer == [status |-> "none"]
NoSong == [title |-> None]
NoResp == [op |-> "none", result |-> "none", votes |-> 0, required |-> 0]

Resp(op, result) == [op |-> op, result |-> result, votes |-> 0, required |-> 0]

VoteResp(op, result, votes, required) ==
    [op |-> op, result |-> result, votes |-> votes, required |-> required]

\* the state of one guild as one record; resp is what the handler answers
\* to its requester and notice the messages it sends to the channel
GuildState(g) ==
    [queue |-> queues[g], db |-> db[g], connected |-> connected[g],
     player |-> player[g], loop_state |-> loop_states[g],
     history |-> song_history[g], inactive_since |-> inactive_since[g],
     skip_votes |-> skip_votes[g], pause_votes |-> pause_votes[g],
     stop_votes |-> stop_votes[g], clear_votes |-> clear_votes[g],
     shuffle_votes |-> shuffle_votes[g], disconnect_votes |-> disconnect_votes[g],
     remove_votes |-> remove_votes[g], loop_votes |-> loop_votes[g],
     pending_end |-> pending_end[g], resolving |-> resolving[g],
     starts |-> starts[g], resp |-> NoResp, notice |-> <<>>]

\* recorded votes of guild state s, over all actions and keys
VotesIn(s) ==
    Cardinality(s.skip_votes) + Cardinality(s.pause_votes)
    + Cardinality(s.stop_votes) + Cardinality(s.clear_votes)
    + Cardinality(s.shuffle_votes) + Cardinality(s.disconnect_votes)
    + Cardinality(s.remove_votes) + Cardinality(s.loop_votes)

\* what the model explores of a guild: lim gives the number of track starts
\* and of recorded votes it follows
Within(s, lim) ==
    /\ Len(s.queue) <= MaxQueue + 2
    /\ s.starts <= lim.starts
    /\ Len(s.pending_end) <= MaxPending
    /\ Len(s.resolving) <= MaxResolving
    /\ VotesIn(s) <= lim.votes

\* Commit with skip_votes held as one set for all guilds
Commit_shared(g, result, lim) ==
    \E r \in {result} :
        /\ Within(r, lim)
        /\ queues' = [queues EXCEPT ![g] = r.queue]
        /\ db' = [db EXCEPT ![g] = r.db]
        /\ connected' = [connected EXCEPT ![g] = r.connected]
        /\ player' = [player EXCEPT ![g] = r.player]
        /\ loop_states' = [loop_states EXCEPT ![g] = r.loop_state]
        /\ song_history' = [song_history EXCEPT ![g] = r.history]
        /\ inactive_since' = [inactive_since EXCEPT ![g] = r.inactive_since]
        /\ skip_votes' = [h \in Guilds |-> r.skip_votes]
        /\ pause_votes' = [pause_votes EXCEPT ![g] = r.pause_votes]
        /\ stop_votes' = [stop_votes EXCEPT ![g] = r.stop_votes]
        /\ clear_votes' = [clear_votes EXCEPT ![g] = r.clear_votes]
        /\ shuffle_votes' = [shuffle_votes EXCEPT ![g] = r.shuffle_votes]
        /\ disconnect_votes' = [disconnect_votes EXCEPT ![g] = r.disconnect_votes]
        /\ remove_votes' = [remove_votes EXCEPT ![g] = r.remove_votes]
        /\ loop_votes' = [loop_votes EXCEPT ![g] = r.loop_votes]
        /\ pending_end' = [pending_end EXCEPT ![g] = r.pending_end]
        /\ resolving' = [resolving EXCEPT ![g] = r.resolving]
        /\ starts' = [starts EXCEPT ![g] = r.starts]

\* a handler ran for guild g and left it in state result
Commit(g, result, lim) ==
    \E r \in {result} :
        /\ Within(r, lim)
        /\ queues' = [queues EXCEPT ![g] = r.queue]
        /\ db' = [db EXCEPT ![g] = r.db]
        /\ connected' = [connected EXCEPT ![g] = r.connected]
        /\ player' = [player EXCEPT ![g] = r.player]
        /\ loop_states' = [loop_states EXCEPT ![g] = r.loop_state]
        /\ song_history' = [song_history EXCEPT ![g] = r.history]
        /\ inactive_since' = [inactive_since EXCEPT ![g] = r.inactive_since]
        /\ skip_votes' = [skip_votes EXCEPT ![g] = r.skip_votes]
        /\ pause_votes' = [pause_votes EXCEPT ![g] = r.pause_votes]
        /\ stop_votes' = [stop_votes EXCEPT ![g] = r.stop_votes]
        /\ clear_votes' = [clear_votes EXCEPT ![g] = r.clear_votes]
        /\ shuffle_votes' = [shuffle_votes EXCEPT ![g] = r.shuffle_votes]
        /\ disconnect_votes' = [disconnect_votes EXCEPT ![g] = r.disconnect_votes]
        /\ remove_votes' = [remove_votes EXCEPT ![g] = r.remove_votes]
        /\ loop_votes' = [loop_votes EXCEPT ![g] = r.loop_votes]
        /\ pending_end' = [pending_end EXCEPT ![g] = r.pending_end]
        /\ resolving' = [resolving EXCEPT ![g] = r.resolving]
        /\ starts' = [starts EXCEPT ![g] = r.starts]

\* a handler ran over every guild and left guild g in state R[g]
CommitAll(R, lim) ==
    /\ \A g \in Guilds : Within(R[g], lim)
    /\ queues' = [g \in Guilds |-> R[g].queue]
    /\ db' = [g \in Guilds |-> R[g].db]
    /\ connected' = [g \in Guilds |-> R[g].connected]
    /\ player' = [g \in Guilds |-> R[g].player]
    /\ loop_states' = [g \in Guilds |-> R[g].loop_state]
    /\ song_history' = [g \in Guilds |-> R[g].history]
    /\ inactive_since' = [g \in Guilds |-> R[g].inactive_since]
    /\ skip_votes' = [g \in Guilds |-> R[g].skip_votes]
    /\ pause_votes' = [g \in Guilds |-> R[g].pause_votes]
    /\ stop_votes' = [g \in Guilds |-> R[g].stop_votes]
    /\ clear_votes' = [g \in Guilds |-> R[g].clear_votes]
    /\ shuffle_votes' = [g \in Guilds |-> R[g].shuffle_votes]
    /\ disconnect_votes' = [g \in Guilds |-> R[g].disconnect_votes]
    /\ remove_votes' = [g \in Guilds |-> R[g].remove_votes]
    /\ loop_votes' = [g \in Guilds |-> R[g].loop_votes]
    /\ pending_end' = [g \in Guilds |-> R[g].pending_end]
    /\ resolving' = [g \in Guilds |-> R[g].resolving]
    /\ starts' = [g \in Guilds |-> R[g].starts]

\* ------------------------------------------------------------------------
\* Voice client (discord.VoiceClient)
\* ------------------------------------------------------------------------
is_playing(s) == s.player.status = "playing"

is_paused(s) == s.player.status = "paused"

\* vc.source: the source of _player, None when there is no _player
has_source(s) == s.player.status # "none"

\* vc.stop(): a player that has not finished runs its 'after' callback,
\* which creates the on_song_end task; _player becomes None
vc_stop(s) ==
    IF s.player.status \in {"playing", "paused"}
    THEN [s EXCEPT !.player = NoPlayer,
                   !.pending_end = Append(@, s.player.song)]
    ELSE [s EXCEPT !.player = NoPlayer]

\* YTDLSource.from_data(next_song.data)
from_data(song) ==
    [song |-> song, requester |-> GetRequester(song.data),
     source |-> "from_data", filename |-> Get(song.data, "url"),
     status |-> "playing"]

\* the stream URL extract_info returns for a page URL
StreamOf(url) == IF url = "wA" THEN "sA" ELSE "sB"

\* YTDLSource.from_url(next_song.url, stream=True, requester=next_song.requester)
from_url(song) ==
    [song |-> song, requester |-> song.requester,
     source |-> "from_url", filename |-> StreamOf(song.url),
     status |-> "playing"]

\* ------------------------------------------------------------------------
\* Persistence
\* ------------------------------------------------------------------------
save_queue_to_db(s) == [s EXCEPT !.db = QueueData(s.queue)]

\* ------------------------------------------------------------------------
\* Playback engine
\* ------------------------------------------------------------------------
\* play_next from vc.play on: ClientException when not connected or already
\* playing; the footer of the embed reads player.requester.display_name
start_player(s, p) ==
    IF ~s.connected \/ is_playing(s) THEN s
    ELSE LET s1 == [s EXCEPT !.player = p, !.starts = @ + 1] IN
         IF p.requester = NoUser THEN s1
         ELSE save_queue_to_db([s1 EXCEPT !.notice = Append(@, "NowPlaying")])

\* play_next up to the point where it plays or suspends in from_url
play_next(s, t) ==
    LET s1 == [s EXCEPT !.inactive_since = NoMark] IN
    IF ~s1.connected THEN s1
    ELSE IF s1.queue # <<>>
    THEN LET next_song == Head(s1.queue)
             s2 == [s1 EXCEPT !.skip_votes = {}, !.pause_votes = {},
                              !.stop_votes = {}, !.queue = Tail(@)]
         IN IF next_song.stream_url # None
            THEN start_player(s2, from_data(next_song))
            ELSE [s2 EXCEPT !.resolving = Append(@, next_song)]
    ELSE [s1 EXCEPT !.notice = Append(@, "QueueFinished"),
                    !.inactive_since = t]

\* deque(maxlen=SONG_HISTORY_MAXLEN).append
HistoryAppend(h, song) ==
    IF Len(h) >= SONG_HISTORY_MAXLEN THEN Append(Tail(h), song) ELSE Append(h, song)

\* on_song_end that puts the finished song at the tail in both loop modes
on_song_end_tail(s, finished, t) ==
    LET s1 == IF finished # NoSong
              THEN [s EXCEPT !.history = HistoryAppend(@, finished)] ELSE s
        s2 == IF s.loop_state \in {"song", "queue"} /\ finished # NoSong
              THEN [s1 EXCEPT !.queue = Append(@, finished)]
              ELSE s1
        s3 == save_queue_to_db(s2)
    IN IF s3.connected THEN play_next(s3, t) ELSE s3

on_song_end(s, finished, t) ==
    LET s1 == IF finished # NoSong
              THEN [s EXCEPT !.history = HistoryAppend(@, finished)] ELSE s
        s2 == IF s.loop_state = "song" /\ finished # NoSong
              THEN [s1 EXCEPT !.queue = <<finished>> \o @]
              ELSE IF s.loop_state = "queue" /\ finished # NoSong
              THEN [s1 EXCEPT !.queue = Append(@, finished)]
              ELSE s1
        s3 == save_queue_to_db(s2)
    IN IF s3.connected THEN play_next(s3, t) ELSE s3

\* on_song_end when save_queue_to_db raises (the database cannot be opened or
\* written): the history and the queue are updated in memory, the exception
\* leaves the task, and play_next is not reached
on_song_end_save_raises(s, finished) ==
    LET s1 == IF finished # NoSong
              THEN [s EXCEPT !.history = HistoryAppend(@, finished)] ELSE s
    IN IF s.loop_state = "song" /\ finished # NoSong
       THEN [s1 EXCEPT !.queue = <<finished>> \o @]
       ELSE IF s.loop_state = "queue" /\ finished # NoSong
       THEN [s1 EXCEPT !.queue = Append(@, finished)]
       ELSE s1

\* play_next_resolved that reports the failed song to on_song_end as finished
play_next_resolved_finished(s, song, ok, t) ==
    IF song.url = None \/ ~ok
    THEN on_song_end([s EXCEPT !.notice = Append(@, "PlaybackError")], song, t)
    ELSE start_player(s, from_url(song))

\* play_next resumed after from_url: the except branch or vc.play
play_next_resolved(s, song, ok, t) ==
    IF song.url = None \/ ~ok
    THEN on_song_end([s EXCEPT !.notice = Append(@, "PlaybackError")], NoSong, t)
    ELSE start_player(s, from_url(song))

\* _handle_disconnect that leaves the loop mode and the mark as they are
_handle_disconnect_queue(s) ==
    LET s1 == save_queue_to_db([s EXCEPT !.queue = <<>>])
    IN IF s1.connected THEN [vc_stop(s1) EXCEPT !.connected = FALSE] ELSE s1

_handle_disconnect(s) ==
    LET s1 == save_queue_to_db([s EXCEPT !.queue = <<>>])
        s2 == [s1 EXCEPT !.loop_state = "off", !.inactive_since = NoMark]
    IN IF s2.connected THEN [vc_stop(s2) EXCEPT !.connected = FALSE] ELSE s2

\* auto_disconnect at time t, for one guild of inactive_since.items()
auto_disconnect(s, t) ==
    IF s.inactive_since # NoMark
       /\ t - s.inactive_since >= INACTIVITY_TIMEOUT_SECONDS
       /\ s.connected
       /\ ~is_playing(s) /\ ~is_paused(s)
    THEN _handle_disconnect([s EXCEPT !.notice = Append(@, "InactivityDisconnect")])
    ELSE s

\* ------------------------------------------------------------------------
\* Voting
\* ------------------------------------------------------------------------
IsAdmin(u) == u \in Administrators

\* half of the listeners, rounded up
required_votes_half(L) == (L + 1) \div 2

\* required_votes = (len(listeners) // 2) + 1
required_votes(L) == (L \div 2) + 1

\* remove_votes[g][number] and loop_votes[g][mode]
VotersOf(votes, key) == {v[2] : v \in {w \in votes : w[1] = key}}

AddVote(votes, key, u) == votes \cup {<<key, u>>}

\* ------------------------------------------------------------------------
\* Commands; u is the author, inv says whether the author is in the
\* bot's voice channel, L is the number of non-bot members of that channel
\* ------------------------------------------------------------------------
_stop_logic(s, u, L, t) ==
    IF ~s.connected THEN [s EXCEPT !.resp = Resp("stop", "NotConnected")]
    ELSE
    LET s1 == save_queue_to_db([s EXCEPT !.queue = <<>>, !.loop_state = "off"])
        s2 == IF is_playing(s1) \/ is_paused(s1) THEN vc_stop(s1) ELSE s1
        s3 == [s2 EXCEPT !.inactive_since = t]
        required == required_votes(L)
        voters == s3.stop_votes \cup {u}
    IN IF IsAdmin(u) THEN [s3 EXCEPT !.resp = Resp("stop", "Forced")]
       ELSE IF u \in s3.stop_votes
       THEN [s3 EXCEPT !.resp = Resp("stop", "AlreadyVoted")]
       ELSE IF Cardinality(voters) >= required
       THEN [s3 EXCEPT !.stop_votes = {},
                       !.resp = VoteResp("stop", "Passed", Cardinality(voters), required)]
       ELSE [s3 EXCEPT !.stop_votes = voters,
                       !.resp = VoteResp("stop", "Added", Cardinality(voters), required)]

vc_pause(s) == [s EXCEPT !.player.status = "paused"]

_pause_logic(s, u, L, t) ==
    IF ~s.connected \/ ~is_playing(s) THEN [s EXCEPT !.resp = Resp("pause", "NotPlaying")]
    ELSE
    LET required == required_votes(L)
        voters == s.pause_votes \cup {u}
    IN IF IsAdmin(u) \/ u = s.player.requester
       THEN [vc_pause(s) EXCEPT !.inactive_since = t, !.resp = Resp("pause", "Forced")]
       ELSE IF u \in s.pause_votes
       THEN [s EXCEPT !.resp = Resp("pause", "AlreadyVoted")]
       ELSE IF Cardinality(voters) >= required
       THEN [vc_pause(s) EXCEPT !.inactive_since = t, !.pause_votes = {},
                     !.resp = VoteResp("pause", "Passed", Cardinality(voters), required)]
       ELSE [s EXCEPT !.pause_votes = voters,
                      !.resp = VoteResp("pause", "Added", Cardinality(voters), required)]

_skip_logic(s, u, L) ==
    IF ~s.connected \/ ~has_source(s) THEN [s EXCEPT !.resp = Resp("skip", "NothingToSkip")]
    ELSE
    LET required == required_votes(L)
        voters == s.skip_votes \cup {u}
    IN IF IsAdmin(u) \/ u = s.player.requester
       THEN [vc_stop(s) EXCEPT !.resp = Resp("skip", "Forced")]
       ELSE IF u \in s.skip_votes
       THEN [s EXCEPT !.resp = Resp("skip", "AlreadyVoted")]
       ELSE IF Cardinality(voters) >= required
       THEN [vc_stop([s EXCEPT !.skip_votes = voters])
                EXCEPT !.resp = VoteResp("skip", "Passed", Cardinality(voters), required)]
       ELSE [s EXCEPT !.skip_votes = voters,
                      !.resp = VoteResp("skip", "Added", Cardinality(voters), required)]

\* play without a query while paused, and the play/pause button while paused
resume(s) ==
    [s EXCEPT !.player.status = "playing", !.inactive_since = NoMark,
              !.pause_votes = {}, !.resp = Resp("play", "Resumed")]

\* play that calls play_next whether or not a track was playing
play_always(s, u, inv, track, t) ==
    IF ~inv THEN [s EXCEPT !.resp = Resp("play", "NotInVoice")]
    ELSE
    LET s1 == [s EXCEPT !.connected = TRUE]
        song == SearchSong(track, u)
        s2 == save_queue_to_db([s1 EXCEPT !.queue = Append(@, song)])
    IN IF track = NoData THEN [s1 EXCEPT !.resp = Resp("play", "NotFound")]
       ELSE play_next([s2 EXCEPT !.resp = Resp("play", "Started")], t)

\* play with a query that the search resolves to track, or to nothing
play(s, u, inv, track, t) ==
    IF ~inv THEN [s EXCEPT !.resp = Resp("play", "NotInVoice")]
    ELSE
    LET was_playing == s.connected /\ (is_playing(s) \/ is_paused(s))
        s1 == [s EXCEPT !.connected = TRUE]
        song == SearchSong(track, u)
        s2 == save_queue_to_db([s1 EXCEPT !.queue = Append(@, song)])
    IN IF track = NoData THEN [s1 EXCEPT !.resp = Resp("play", "NotFound")]
       ELSE IF was_playing THEN [s2 EXCEPT !.resp = Resp("play", "AddedToQueue")]
       ELSE play_next([s2 EXCEPT !.resp = Resp("play", "Started")], t)

loop(s, u, inv, mode, L) ==
    LET required == required_votes(L)
        voters == VotersOf(s.loop_votes, mode) \cup {u}
    IN IF IsAdmin(u)
       THEN [s EXCEPT !.loop_state = mode, !.resp = Resp("loop", "Forced")]
       ELSE IF ~inv \/ ~s.connected
       THEN [s EXCEPT !.resp = Resp("loop", "NotInVoice")]
       ELSE IF u \in VotersOf(s.loop_votes, mode)
       THEN [s EXCEPT !.resp = Resp("loop", "AlreadyVoted")]
       ELSE IF Cardinality(voters) >= required
       THEN [s EXCEPT !.loop_state = mode, !.loop_votes = {},
                      !.resp = VoteResp("loop", "Passed", Cardinality(voters), required)]
       ELSE [s EXCEPT !.loop_votes = AddVote(@, mode, u),
                      !.resp = VoteResp("loop", "Added", Cardinality(voters), required)]

\* LoopControlsView: interaction_check, then _handle_vote
_handle_vote(s, u, inv, mode, L) ==
    LET required == required_votes(L)
        voters == VotersOf(s.loop_votes, mode) \cup {u}
    IN IF ~s.connected \/ ~inv
       THEN [s EXCEPT !.resp = Resp("loop_button", "NotInVoice")]
       ELSE IF IsAdmin(u)
       THEN [s EXCEPT !.loop_state = mode, !.resp = Resp("loop_button", "Forced")]
       ELSE IF u \in VotersOf(s.loop_votes, mode)
       THEN [s EXCEPT !.resp = Resp("loop_button", "AlreadyVoted")]
       ELSE IF Cardinality(voters) >= required
       THEN [s EXCEPT !.loop_state = mode, !.loop_votes = {},
                      !.resp = VoteResp("loop_button", "Passed", Cardinality(voters), required)]
       ELSE [s EXCEPT !.loop_votes = AddVote(@, mode, u),
                      !.resp = VoteResp("loop_button", "Added", Cardinality(voters), required)]

disconnect(s, u, inv, L) ==
    LET required == required_votes(L)
        voters == s.disconnect_votes \cup {u}
    IN IF ~s.connected THEN [s EXCEPT !.resp = Resp("disconnect", "NotConnected")]
       ELSE IF ~inv THEN [s EXCEPT !.resp = Resp("disconnect", "NotInVoice")]
       ELSE IF IsAdmin(u)
       THEN [_handle_disconnect(s) EXCEPT !.resp = Resp("disconnect", "Forced")]
       ELSE IF u \in s.disconnect_votes
       THEN [s EXCEPT !.resp = Resp("disconnect", "AlreadyVoted")]
       ELSE IF Cardinality(voters) >= required
       THEN [_handle_disconnect([s EXCEPT !.disconnect_votes = voters])
                EXCEPT !.resp = VoteResp("disconnect", "Passed", Cardinality(voters), required)]
       ELSE [s EXCEPT !.disconnect_votes = voters,
                      !.resp = VoteResp("disconnect", "Added", Cardinality(voters), required)]

\* the orders random.shuffle can leave the list in
Shuffles(queue) ==
    {q \in [1..Len(queue) -> {queue[i] : i \in 1..Len(queue)}] :
        \E p \in [1..Len(queue) -> 1..Len(queue)] :
            /\ \A i, j \in 1..Len(queue) : i # j => p[i] # p[j]
            /\ \A i \in 1..Len(queue) : q[i] = queue[p[i]]}

\* shuffle that refuses only an empty queue
shuffle_nonempty(s, u, inv, shuffled, L) ==
    LET required == required_votes(L)
        voters == s.shuffle_votes \cup {u}
    IN IF Len(s.queue) < 1 THEN [s EXCEPT !.resp = Resp("shuffle", "TooShort")]
       ELSE IF ~inv \/ ~s.connected THEN [s EXCEPT !.resp = Resp("shuffle", "NotInVoice")]
       ELSE IF IsAdmin(u)
       THEN [save_queue_to_db([s EXCEPT !.queue = shuffled])
                EXCEPT !.resp = Resp("shuffle", "Forced")]
       ELSE IF u \in s.shuffle_votes
       THEN [s EXCEPT !.resp = Resp("shuffle", "AlreadyVoted")]
       ELSE IF Cardinality(voters) >= required
       THEN [save_queue_to_db([s EXCEPT !.queue = shuffled])
                EXCEPT !.shuffle_votes = {},
                       !.resp = VoteResp("shuffle", "Passed", Cardinality(voters), required)]
       ELSE [s EXCEPT !.shuffle_votes = voters,
                      !.resp = VoteResp("shuffle", "Added", Cardinality(voters), required)]

shuffle(s, u, inv, shuffled, L) ==
    LET required == required_votes(L)
        voters == s.shuffle_votes \cup {u}
    IN IF Len(s.queue) < 2 THEN [s EXCEPT !.resp = Resp("shuffle", "TooShort")]
       ELSE IF ~inv \/ ~s.connected THEN [s EXCEPT !.resp = Resp("shuffle", "NotInVoice")]
       ELSE IF IsAdmin(u)
       THEN [save_queue_to_db([s EXCEPT !.queue = shuffled])
                EXCEPT !.resp = Resp("shuffle", "Forced")]
       ELSE IF u \in s.shuffle_votes
       THEN [s EXCEPT !.resp = Resp("shuffle", "AlreadyVoted")]
       ELSE IF Cardinality(voters) >= required
       THEN [save_queue_to_db([s EXCEPT !.queue = shuffled])
                EXCEPT !.shuffle_votes = {},
                       !.resp = VoteResp("shuffle", "Passed", Cardinality(voters), required)]
       ELSE [s EXCEPT !.shuffle_votes = voters,
                      !.resp = VoteResp("shuffle", "Added", Cardinality(voters), required)]

\* list.pop(number - 1)
PopAt(queue, number) ==
    [i \in 1..(Len(queue) - 1) |-> IF i < number THEN queue[i] ELSE queue[i + 1]]

\* remove with a reset of the votes for position number alone
remove_position(s, u, inv, number, L) ==
    LET required == required_votes(L)
        voters == VotersOf(s.remove_votes, number) \cup {u}
    IN IF s.queue = <<>> THEN [s EXCEPT !.resp = Resp("remove", "QueueEmpty")]
       ELSE IF ~(1 <= number /\ number <= Len(s.queue))
       THEN [s EXCEPT !.resp = Resp("remove", "InvalidNumber")]
       ELSE IF ~inv \/ ~s.connected THEN [s EXCEPT !.resp = Resp("remove", "NotInVoice")]
       ELSE IF IsAdmin(u) \/ u = s.queue[number].requester_id
       THEN [save_queue_to_db([s EXCEPT !.queue = PopAt(@, number)])
                EXCEPT !.remove_votes = {}, !.resp = Resp("remove", "Forced")]
       ELSE IF u \in VotersOf(s.remove_votes, number)
       THEN [s EXCEPT !.resp = Resp("remove", "AlreadyVoted")]
       ELSE IF Cardinality(voters) >= required
       THEN [save_queue_to_db([s EXCEPT !.queue = PopAt(@, number)])
                EXCEPT !.remove_votes = {v \in @ : v[1] # number},
                       !.resp = VoteResp("remove", "Passed", Cardinality(voters), required)]
       ELSE [s EXCEPT !.remove_votes = AddVote(@, number, u),
                      !.resp = VoteResp("remove", "Added", Cardinality(voters), required)]

\* remove that forgets the pending remove votes when the number is invalid
remove_forgetful(s, u, inv, number, L) ==
    LET required == required_votes(L)
        voters == VotersOf(s.remove_votes, number) \cup {u}
    IN IF s.queue = <<>> THEN [s EXCEPT !.resp = Resp("remove", "QueueEmpty")]
       ELSE IF ~(1 <= number /\ number <= Len(s.queue))
       THEN [s EXCEPT !.remove_votes = {}, !.resp = Resp("remove", "InvalidNumber")]
       ELSE IF ~inv \/ ~s.connected THEN [s EXCEPT !.resp = Resp("remove", "NotInVoice")]
       ELSE IF IsAdmin(u) \/ u = s.queue[number].requester_id
       THEN [save_queue_to_db([s EXCEPT !.queue = PopAt(@, number)])
                EXCEPT !.remove_votes = {}, !.resp = Resp("remove", "Forced")]
       ELSE IF u \in VotersOf(s.remove_votes, number)
       THEN [s EXCEPT !.resp = Resp("remove", "AlreadyVoted")]
       ELSE IF Cardinality(voters) >= required
       THEN [save_queue_to_db([s EXCEPT !.queue = PopAt(@, number)])
                EXCEPT !.remove_votes = {},
                       !.resp = VoteResp("remove", "Passed", Cardinality(voters), required)]
       ELSE [s EXCEPT !.remove_votes = AddVote(@, number, u),
                      !.resp = VoteResp("remove", "Added", Cardinality(voters), required)]

remove(s, u, inv, number, L) ==
    LET required == required_votes(L)
        voters == VotersOf(s.remove_votes, number) \cup {u}
    IN IF s.queue = <<>> THEN [s EXCEPT !.resp = Resp("remove", "QueueEmpty")]
       ELSE IF ~(1 <= number /\ number <= Len(s.queue))
       THEN [s EXCEPT !.resp = Resp("remove", "InvalidNumber")]
       ELSE IF ~inv \/ ~s.connected THEN [s EXCEPT !.resp = Resp("remove", "NotInVoice")]
       ELSE IF IsAdmin(u) \/ u = s.queue[number].requester_id
       THEN [save_queue_to_db([s EXCEPT !.queue = PopAt(@, number)])
                EXCEPT !.remove_votes = {}, !.resp = Resp("remove", "Forced")]
       ELSE IF u \in VotersOf(s.remove_votes, number)
       THEN [s EXCEPT !.resp = Resp("remove", "AlreadyVoted")]
       ELSE IF Cardinality(voters) >= required
       THEN [save_queue_to_db([s EXCEPT !.queue = PopAt(@, number)])
                EXCEPT !.remove_votes = {},
                       !.resp = VoteResp("remove", "Passed", Cardinality(voters), required)]
       ELSE [s EXCEPT !.remove_votes = AddVote(@, number, u),
                      !.resp = VoteResp("remove", "Added", Cardinality(voters), required)]

clear(s, u, inv, L) ==
    LET required == required_votes(L)
        voters == s.clear_votes \cup {u}
    IN IF s.queue = <<>> THEN [s EXCEPT !.resp = Resp("clear", "QueueEmpty")]
       ELSE IF ~inv \/ ~s.connected THEN [s EXCEPT !.resp = Resp("clear", "NotInVoice")]
       ELSE IF IsAdmin(u)
       THEN [save_queue_to_db([s EXCEPT !.queue = <<>>])
                EXCEPT !.resp = Resp("clear", "Forced")]
       ELSE IF u \in s.clear_votes
       THEN [s EXCEPT !.resp = Resp("clear", "AlreadyVoted")]
       ELSE IF Cardinality(voters) >= required
       THEN [save_queue_to_db([s EXCEPT !.queue = <<>>])
                EXCEPT !.clear_votes = {},
                       !.resp = VoteResp("clear", "Passed", Cardinality(voters), required)]
       ELSE [s EXCEPT !.clear_votes = voters,
                      !.resp = VoteResp("clear", "Added", Cardinality(voters), required)]

\* PlayerControls.interaction_check: the bot has a voice client and the
\* user is in its channel
interaction_check(s, inv) == s.connected /\ inv

\* the buttons of the 'Now Playing' message
skip_button(s, u, inv, L) ==
    IF ~interaction_check(s, inv) THEN [s EXCEPT !.resp = Resp("button", "NotInVoice")]
    ELSE _skip_logic(s, u, L)

stop_button(s, u, inv, L, t) ==
    IF ~interaction_check(s, inv) THEN [s EXCEPT !.resp = Resp("button", "NotInVoice")]
    ELSE _stop_logic(s, u, L, t)

play_pause_button(s, u, inv, L, t) ==
    IF ~interaction_check(s, inv) THEN [s EXCEPT !.resp = Resp("button", "NotInVoice")]
    ELSE IF is_playing(s) THEN _pause_logic(s, u, L, t)
    ELSE IF is_paused(s) THEN resume(s)
    ELSE s

\* previous_button that asks for one history entry only
previous_button_one(s, u, inv) ==
    IF ~interaction_check(s, inv) THEN [s EXCEPT !.resp = Resp("button", "NotInVoice")]
    ELSE IF Len(s.history) < 1
    THEN [s EXCEPT !.resp = Resp("previous", "NoPrevious")]
    ELSE LET n == Len(s.history)
             s1 == [s EXCEPT !.history = SubSeq(@, 1, IF n >= 2 THEN n - 2 ELSE 0),
                             !.queue = SubSeq(s.history, IF n >= 2 THEN n - 1 ELSE 1, n) \o @]
         IN [vc_stop(s1) EXCEPT !.resp = Resp("previous", "Previous")]

\* previous_button that inserts the two songs in the order it pops them
previous_button_popped(s, u, inv) ==
    IF ~interaction_check(s, inv) THEN [s EXCEPT !.resp = Resp("button", "NotInVoice")]
    ELSE IF Len(s.history) < 2
    THEN [s EXCEPT !.resp = Resp("previous", "NoPrevious")]
    ELSE LET n == Len(s.history)
             current_song == s.history[n]
             previous_song == s.history[n - 1]
             s1 == [s EXCEPT !.history = SubSeq(@, 1, n - 2),
                             !.queue = <<current_song, previous_song>> \o @]
         IN [vc_stop(s1) EXCEPT !.resp = Resp("previous", "Previous")]

\* the previous button: the two newest history entries go back to the front
\* of the queue and the player is stopped
previous_button(s, u, inv) ==
    IF ~interaction_check(s, inv) THEN [s EXCEPT !.resp = Resp("button", "NotInVoice")]
    ELSE IF Len(s.history) < 2
    THEN [s EXCEPT !.resp = Resp("previous", "NoPrevious")]
    ELSE LET n == Len(s.history)
             current_song == s.history[n]
             previous_song == s.history[n - 1]
             s1 == [s EXCEPT !.history = SubSeq(@, 1, n - 2),
                             !.queue = <<previous_song, current_song>> \o @]
         IN [vc_stop(s1) EXCEPT !.resp = Resp("previous", "Previous")]

\* play up to its search: the voice check, was_playing, and the connection
play_received(s, inv) ==
    IF ~inv THEN [s EXCEPT !.resp = Resp("play", "NotInVoice")]
    ELSE [s EXCEPT !.connected = TRUE]

\* play after its search returned: request holds the author, the search
\* result and the value of was_playing computed when the command arrived;
\* the list the song is appended to is self.queues[guild] as long as no
\* stop or disconnect has replaced that list during the search
play_searched(s, request, t) ==
    LET song == SearchSong(request.track, request.author)
        s2 == save_queue_to_db([s EXCEPT !.queue = Append(@, song)])
    IN IF request.track = NoData THEN [s EXCEPT !.resp = Resp("play", "NotFound")]
       ELSE IF request.was_playing THEN [s2 EXCEPT !.resp = Resp("play", "AddedToQueue")]
       ELSE play_next([s2 EXCEPT !.resp = Resp("play", "Started")], t)

\* one round of _process_playlist_in_background: search the next entry and
\* append the song to self.queues[guild], then save
process_playlist(s, entry) ==
    IF entry.track = NoData THEN s
    ELSE save_queue_to_db([s EXCEPT !.queue = Append(@, SearchSong(entry.track, entry.author))])

\* the conditions of auto_disconnect for one guild at time t, up to the
\* await of channel.send
auto_disconnect_due(s, t) ==
    /\ s.inactive_since # NoMark
    /\ t - s.inactive_since >= INACTIVITY_TIMEOUT_SECONDS
    /\ s.connected
    /\ ~is_playing(s) /\ ~is_paused(s)

\* ------------------------------------------------------------------------
\* Actions
\* ------------------------------------------------------------------------
env == <<in_voice, extras, other_bots, members, now, tasks, saved_tasks, searching, playlist,
         announcing>>

\* listeners = [member for member in vc.channel.members if not member.bot]
Listeners(g) == Cardinality(in_voice[g]) + extras[g]

InVoice(g, u) == u \in in_voice[g]

Play(g, requesters, catalog, lim) ==
    \E u \in requesters \cap members[g], track \in catalog :
        /\ Len(queues[g]) < MaxQueue
        /\ Commit(g, play(GuildState(g), u, InVoice(g, u), track, now), lim)
        /\ UNCHANGED env

Resume(g, lim) ==
    \E u \in members[g] :
        /\ InVoice(g, u) /\ connected[g] /\ player[g].status = "paused"
        /\ Commit(g, resume(GuildState(g)), lim)
        /\ UNCHANGED env

Stop(g, lim) ==
    \E u \in members[g] :
        /\ Commit(g, _stop_logic(GuildState(g), u, Listeners(g), now), lim)
        /\ UNCHANGED env

Pause(g, lim) ==
    \E u \in members[g] :
        /\ Commit(g, _pause_logic(GuildState(g), u, Listeners(g), now), lim)
        /\ UNCHANGED env

Skip(g, lim) ==
    \E u \in members[g] :
        /\ Commit(g, _skip_logic(GuildState(g), u, Listeners(g)), lim)
        /\ UNCHANGED env

Loop(g, lim) ==
    \E u \in members[g], mode \in Modes :
        /\ Commit(g, loop(GuildState(g), u, InVoice(g, u), mode, Listeners(g)), lim)
        /\ UNCHANGED env

LoopButton(g, lim) ==
    \E u \in members[g], mode \in Modes :
        /\ Commit(g, _handle_vote(GuildState(g), u, InVoice(g, u), mode, Listeners(g)), lim)
        /\ UNCHANGED env

Disconnect(g, lim) ==
    \E u \in members[g] :
        /\ Commit(g, disconnect(GuildState(g), u, InVoice(g, u), Listeners(g)), lim)
        /\ UNCHANGED env

Shuffle(g, lim) ==
    \E u \in members[g], shuffled \in Shuffles(queues[g]) :
        /\ Commit(g, shuffle(GuildState(g), u, InVoice(g, u), shuffled, Listeners(g)), lim)
        /\ UNCHANGED env

Remove(g, lim) ==
    \E u \in members[g], number \in 0..(MaxQueue + 1) :
        /\ Commit(g, remove(GuildState(g), u, InVoice(g, u), number, Listeners(g)), lim)
        /\ UNCHANGED env

Clear(g, lim) ==
    \E u \in members[g] :
        /\ Commit(g, clear(GuildState(g), u, InVoice(g, u), Listeners(g)), lim)
        /\ UNCHANGED env

SkipButton(g, lim) ==
    \E u \in members[g] :
        /\ Commit(g, skip_button(GuildState(g), u, InVoice(g, u), Listeners(g)), lim)
        /\ UNCHANGED env

StopButton(g, lim) ==
    \E u \in members[g] :
        /\ Commit(g, stop_button(GuildState(g), u, InVoice(g, u), Listeners(g), now), lim)
        /\ UNCHANGED env

PlayPauseButton(g, lim) ==
    \E u \in members[g] :
        /\ Commit(g, play_pause_button(GuildState(g), u, InVoice(g, u), Listeners(g), now), lim)
        /\ UNCHANGED env

PreviousButton(g, lim) ==
    \E u \in members[g] :
        /\ Commit(g, previous_button(GuildState(g), u, InVoice(g, u)), lim)
        /\ UNCHANGED env

\* the audio layer reaches the end of the track: the player thread ends and
\* its 'after' callback creates the on_song_end task; _player stays set
NaturalEnd(g, lim) ==
    /\ player[g].status = "playing"
    /\ Commit(g, [GuildState(g) EXCEPT !.player.status = "ended",
                                       !.pending_end = Append(@, player[g].song)], lim)
    /\ UNCHANGED env

\* the event loop runs an on_song_end task
OnSongEnd(g, lim) ==
    /\ pending_end[g] # <<>>
    /\ Commit(g, on_song_end([GuildState(g) EXCEPT !.pending_end = Tail(@)],
                             Head(pending_end[g]), now), lim)
    /\ UNCHANGED env

\* the event loop runs an on_song_end task and the write to the database fails
OnSongEndSaveFails(g, lim) ==
    /\ pending_end[g] # <<>>
    /\ Commit(g, on_song_end_save_raises([GuildState(g) EXCEPT !.pending_end = Tail(@)],
                                         Head(pending_end[g])), lim)
    /\ UNCHANGED env

\* the ticker: TickSeconds after its last run, auto_disconnect goes over
\* every guild
AutoDisconnect(lim) ==
    /\ now + TickSeconds <= TickSeconds * MaxTicks
    /\ now' = now + TickSeconds
    /\ CommitAll([g \in Guilds |-> auto_disconnect(GuildState(g), now + TickSeconds)], lim)
    /\ UNCHANGED <<in_voice, extras, other_bots, members, tasks, saved_tasks, searching, playlist, announcing>>

\* from_url returns (ok) or raises, and play_next goes on
PlayNextResolved(g, lim) ==
    \E ok \in BOOLEAN :
        /\ resolving[g] # <<>>
        /\ Commit(g, play_next_resolved([GuildState(g) EXCEPT !.resolving = Tail(@)],
                                        Head(resolving[g]), ok, now), lim)
        /\ UNCHANGED env

JoinVoice(g, lim) ==
    \E u \in members[g] \ in_voice[g] :
        /\ in_voice' = [in_voice EXCEPT ![g] = @ \cup {u}]
        /\ Commit(g, GuildState(g), lim)
        /\ UNCHANGED <<extras, other_bots, members, now, tasks, saved_tasks, searching, playlist, announcing>>

\* on_voice_state_update for a non-bot member whose after.channel is None
on_voice_state_update(s, channel_members) ==
    IF s.connected /\ channel_members = 1 THEN _handle_disconnect(s) ELSE s

LeaveVoice(g, lim) ==
    \E u \in in_voice[g] :
        /\ in_voice' = [in_voice EXCEPT ![g] = @ \ {u}]
        /\ Commit(g, on_voice_state_update(GuildState(g),
                        Cardinality(in_voice[g] \ {u}) + extras[g] + other_bots[g] + 1), lim)
        /\ UNCHANGED <<extras, other_bots, members, now, tasks, saved_tasks, searching, playlist, announcing>>

\* a non-bot member moves to another voice channel: after.channel is not
\* None, so on_voice_state_update does nothing
MoveVoice(g, lim) ==
    \E u \in in_voice[g] :
        /\ in_voice' = [in_voice EXCEPT ![g] = @ \ {u}]
        /\ Commit(g, GuildState(g), lim)
        /\ UNCHANGED <<extras, other_bots, members, now, tasks, saved_tasks, searching, playlist, announcing>>

\* another bot joins the channel: on_voice_state_update ignores bots
BotJoins(g, lim) ==
    /\ other_bots[g] < MaxBots
    /\ other_bots' = [other_bots EXCEPT ![g] = @ + 1]
    /\ Commit(g, GuildState(g), lim)
    /\ UNCHANGED <<in_voice, extras, members, now, tasks, saved_tasks, searching, playlist, announcing>>

\* the process restarts: Music.__init__ and load_queues_from_db; the rows
\* of the queues table survive, everything in memory starts afresh
InitialGuild ==
    [queue |-> <<>>, db |-> <<>>, connected |-> FALSE, player |-> NoPlayer,
     loop_state |-> "off", history |-> <<>>, inactive_since |-> NoMark,
     skip_votes |-> {}, pause_votes |-> {}, stop_votes |-> {}, clear_votes |-> {},
     shuffle_votes |-> {}, disconnect_votes |-> {}, remove_votes |-> {},
     loop_votes |-> {}, pending_end |-> <<>>, resolving |-> <<>>,
     starts |-> 0, resp |-> NoResp, notice |-> <<>>]

load_queues_from_db(s, guild_members) ==
    [InitialGuild EXCEPT !.db = s.db,
                         !.queue = LoadQueue(s.db, guild_members),
                         !.resp = Resp("restart", "Loaded")]

Restart(g, lim) ==
    /\ Commit(g, load_queues_from_db(GuildState(g), members[g]), lim)
    /\ UNCHANGED env

\* a member leaves the guild
MemberLeavesGuild(g, lim) ==
    \E u \in members[g] \ Administrators :
        /\ u \notin in_voice[g]
        /\ members' = [members EXCEPT ![g] = @ \ {u}]
        /\ Commit(g, GuildState(g), lim)
        /\ UNCHANGED <<in_voice, extras, other_bots, now, tasks, saved_tasks, searching, playlist, announcing>>

\* a play command arrives and suspends in its search
PlayReceived(g, requesters, catalog, lim) ==
    \E u \in requesters \cap in_voice[g], track \in catalog :
        /\ starts[g] + Len(queues[g]) + Len(searching[g]) < MaxRequests
        /\ searching' = [searching EXCEPT ![g] = Append(@,
               [author |-> u, track |-> track,
                was_playing |-> connected[g] /\ (is_playing(GuildState(g)) \/ is_paused(GuildState(g)))])]
        /\ Commit(g, play_received(GuildState(g), TRUE), lim)
        /\ UNCHANGED <<in_voice, extras, other_bots, members, now, tasks, saved_tasks, playlist, announcing>>

\* the search of a play command returns and the command goes on
PlaySearched(g, lim) ==
    \E i \in 1..Len(searching[g]) :
        /\ searching' = [searching EXCEPT ![g] =
               SubSeq(@, 1, i - 1) \o SubSeq(@, i + 1, Len(@))]
        /\ Commit(g, play_searched(GuildState(g), searching[g][i], now), lim)
        /\ UNCHANGED <<in_voice, extras, other_bots, members, now, tasks, saved_tasks, playlist, announcing>>

\* play with a playlist link: the first entry is handled as a single song,
\* the remaining entry is left to a background task
PlayPlaylist(g, requesters, catalog, lim) ==
    \E u \in requesters \cap in_voice[g], first \in catalog \ {NoData}, second \in catalog :
        /\ Len(playlist[g]) < MaxBackground
        /\ Len(queues[g]) < MaxQueue
        /\ playlist' = [playlist EXCEPT ![g] = Append(@, [author |-> u, track |-> second])]
        /\ Commit(g, play(GuildState(g), u, TRUE, first, now), lim)
        /\ UNCHANGED <<in_voice, extras, other_bots, members, now, tasks, saved_tasks, searching, announcing>>

\* the background task searches its next entry
ProcessPlaylist(g, lim) ==
    /\ playlist[g] # <<>>
    /\ playlist' = [playlist EXCEPT ![g] = Tail(@)]
    /\ Commit(g, process_playlist(GuildState(g), Head(playlist[g])), lim)
    /\ UNCHANGED <<in_voice, extras, other_bots, members, now, tasks, saved_tasks, searching, announcing>>

\* the ticker runs, checks guild g and, when the guild is due, suspends in
\* channel.send
TickerChecks(g, lim) ==
    /\ g \notin announcing
    /\ now + TickSeconds <= TickSeconds * MaxTicks
    /\ now' = now + TickSeconds
    /\ announcing' = IF auto_disconnect_due(GuildState(g), now + TickSeconds)
                     THEN announcing \cup {g} ELSE announcing
    /\ Commit(g, GuildState(g), lim)
    /\ UNCHANGED <<in_voice, extras, other_bots, members, tasks, saved_tasks, searching, playlist>>

\* channel.send returned and the ticker goes on with _handle_disconnect
TickerDisconnects(g, lim) ==
    /\ g \in announcing
    /\ announcing' = announcing \ {g}
    /\ Commit(g, _handle_disconnect([GuildState(g) EXCEPT
                      !.notice = Append(@, "InactivityDisconnect")]), lim)
    /\ UNCHANGED <<in_voice, extras, other_bots, members, now, tasks, saved_tasks, searching, playlist>>

\* the state of the task board
BoardState == [tasks |-> tasks, saved_tasks |-> saved_tasks]

\* everything but the task board
rest == <<queues, db, connected, player, loop_states, song_history,
          inactive_since, skip_votes, pause_votes, stop_votes, clear_votes,
          shuffle_votes, disconnect_votes, remove_votes, loop_votes,
          pending_end, resolving, starts,
          in_voice, extras, other_bots, members, now, searching, playlist,
          announcing>>

\* an administrator issues add_task for a member
AddTask(g, member, descriptions) ==
    \E description \in descriptions, date_ok \in BOOLEAN :
        /\ Len(user_tasks(tasks, g, member)) < MaxTasks
        /\ LET r == add_task(BoardState, g, member, description, date_ok)
           IN /\ tasks' = r.tasks
              /\ saved_tasks' = r.saved_tasks
        /\ UNCHANGED rest

\* the task numbers a user may give: in range, zero, and beyond the list
IndexLists == UNION {[1..n -> 0..(MaxTasks + 1)] : n \in 0..MaxIndices}

\* a user issues remove_task with one of the given lists of numbers
RemoveTask(g, u, lists) ==
    \E indices \in lists :
        /\ LET r == remove_task(BoardState, g, u, indices)
           IN /\ tasks' = r.tasks
              /\ saved_tasks' = r.saved_tasks
        /\ UNCHANGED rest

\* ------------------------------------------------------------------------
\* Specifications
\* ------------------------------------------------------------------------
InitMemory ==
    /\ queues = [g \in Guilds |-> <<>>]
    /\ db = [g \in Guilds |-> <<>>]
    /\ connected = [g \in Guilds |-> FALSE]
    /\ player = [g \in Guilds |-> NoPlayer]
    /\ loop_states = [g \in Guilds |-> "off"]
    /\ song_history = [g \in Guilds |-> <<>>]
    /\ inactive_since = [g \in Guilds |-> NoMark]
    /\ skip_votes = [g \in Guilds |-> {}]
    /\ pause_votes = [g \in Guilds |-> {}]
    /\ stop_votes = [g \in Guilds |-> {}]
    /\ clear_votes = [g \in Guilds |-> {}]
    /\ shuffle_votes = [g \in Guilds |-> {}]
    /\ disconnect_votes = [g \in Guilds |-> {}]
    /\ remove_votes = [g \in Guilds |-> {}]
    /\ loop_votes = [g \in Guilds |-> {}]
    /\ pending_end = [g \in Guilds |-> <<>>]
    /\ resolving = [g \in Guilds |-> <<>>]
    /\ starts = [g \in Guilds |-> 0]
    /\ now = 0
    /\ tasks = EmptyDict
    /\ saved_tasks = EmptyDict
    /\ searching = [g \in Guilds |-> <<>>]
    /\ playlist = [g \in Guilds |-> <<>>]
    /\ announcing = {}

\* recorded votes of one guild, over all actions and keys
TotalVotes(g) == VotesIn(GuildState(g))

\* a passive listener joins the voice channel
ListenerJoins(g, lim) ==
    /\ extras[g] < MaxExtras
    /\ extras' = [extras EXCEPT ![g] = @ + 1]
    /\ Commit(g, GuildState(g), lim)
    /\ UNCHANGED <<in_voice, other_bots, members, now, tasks, saved_tasks, searching, playlist, announcing>>

\* a passive listener leaves voice: on_voice_state_update
ListenerLeaves(g, lim) ==
    /\ extras[g] > 0
    /\ extras' = [extras EXCEPT ![g] = @ - 1]
    /\ Commit(g, on_voice_state_update(GuildState(g),
                    Cardinality(in_voice[g]) + (extras[g] - 1) + other_bots[g] + 1), lim)
    /\ UNCHANGED <<in_voice, other_bots, members, now, tasks, saved_tasks, searching, playlist, announcing>>

\* Spec: every command of one guild; three members sit in the voice
\* channel, two of them request tracks, every track has a stream URL
Requesters == {"admin", "u2"}

Init ==
    /\ InitMemory
    /\ members = [g \in Guilds |-> {"admin", "u2", "u3"}]
    /\ in_voice = [g \in Guilds |-> {"admin", "u2", "u3"}]
    /\ extras = [g \in Guilds |-> 0]
    /\ other_bots = [g \in Guilds |-> 0]

Scope == [starts |-> MaxStarts, votes |-> MaxVotes]

Next ==
    \/ Play(G1, Requesters, {TrackA}, Scope)
    \/ Resume(G1, Scope)
    \/ Stop(G1, Scope)
    \/ Pause(G1, Scope)
    \/ Skip(G1, Scope)
    \/ Loop(G1, Scope)
    \/ LoopButton(G1, Scope)
    \/ Disconnect(G1, Scope)
    \/ Shuffle(G1, Scope)
    \/ Remove(G1, Scope)
    \/ Clear(G1, Scope)
    \/ NaturalEnd(G1, Scope)
    \/ OnSongEnd(G1, Scope)
    \/ ListenerJoins(G1, Scope)
    \/ ListenerLeaves(G1, Scope)

Spec == Init /\ [][Next]_vars

\* SpecSkip: skip, pause and stop votes of four members who sit in the
\* voice channel with one more listener
InitSkip ==
    /\ InitMemory
    /\ members = [g \in Guilds |-> Users]
    /\ in_voice = [g \in Guilds |-> Users]
    /\ extras = [g \in Guilds |-> 1]
    /\ other_bots = [g \in Guilds |-> 0]

ScopeSkip == [starts |-> MaxStarts, votes |-> MaxSkipVotes]

NextSkip ==
    \/ Play(G1, Requesters, {TrackA}, ScopeSkip)
    \/ Resume(G1, ScopeSkip)
    \/ Stop(G1, ScopeSkip)
    \/ Pause(G1, ScopeSkip)
    \/ Skip(G1, ScopeSkip)
    \/ NaturalEnd(G1, ScopeSkip)
    \/ OnSongEnd(G1, ScopeSkip)

SpecSkip == InitSkip /\ [][NextSkip]_vars

\* SpecVote: the vote-gated commands on the tracks of one requester
NextVote ==
    \/ Play(G1, Administrators, {TrackA}, Scope)
    \/ Resume(G1, Scope)
    \/ Stop(G1, Scope)
    \/ Pause(G1, Scope)
    \/ Skip(G1, Scope)
    \/ Loop(G1, Scope)
    \/ LoopButton(G1, Scope)
    \/ Disconnect(G1, Scope)
    \/ Shuffle(G1, Scope)
    \/ Remove(G1, Scope)
    \/ Clear(G1, Scope)

SpecVote == Init /\ [][NextVote]_vars

\* SpecRace: playback while resolutions by from_url are in flight
ScopeRace == [starts |-> MaxRaceStarts, votes |-> MaxVotes]

NextRace ==
    \/ Play(G1, Requesters, Catalog, ScopeRace)
    \/ Resume(G1, ScopeRace)
    \/ Pause(G1, ScopeRace)
    \/ Skip(G1, ScopeRace)
    \/ NaturalEnd(G1, ScopeRace)
    \/ OnSongEnd(G1, ScopeRace)
    \/ PlayNextResolved(G1, ScopeRace)

SpecRace == Init /\ [][NextRace]_vars

\* SpecDb: the queue, its persistence and restarts of the process
InitDb ==
    /\ InitMemory
    /\ members = [g \in Guilds |-> {"admin", "u2"}]
    /\ in_voice = [g \in Guilds |-> {"admin", "u2"}]
    /\ extras = [g \in Guilds |-> 0]
    /\ other_bots = [g \in Guilds |-> 0]

ScopeDb == [starts |-> MaxStarts, votes |-> 0]

NextDb ==
    \/ Play(G1, Requesters, FullCatalog, ScopeDb)
    \/ NaturalEnd(G1, ScopeDb)
    \/ OnSongEnd(G1, ScopeDb)
    \/ PlayNextResolved(G1, ScopeDb)
    \/ LeaveVoice(G1, ScopeDb)
    \/ MemberLeavesGuild(G1, ScopeDb)
    \/ Restart(G1, ScopeDb)

SpecDb == InitDb /\ [][NextDb]_vars

\* SpecVoice: skip, pause and stop by command and by button while members
\* leave and join the voice channel
NextVoice ==
    \/ Play(G1, Administrators, {TrackA}, Scope)
    \/ Stop(G1, Scope)
    \/ Pause(G1, Scope)
    \/ Skip(G1, Scope)
    \/ SkipButton(G1, Scope)
    \/ StopButton(G1, Scope)
    \/ PlayPauseButton(G1, Scope)
    \/ JoinVoice(G1, Scope)
    \/ LeaveVoice(G1, Scope)

SpecVoice == Init /\ [][NextVoice]_vars

\* SpecLoop: tracks end, are replayed under the loop modes and are brought
\* back by the previous button; no vote is recorded
ScopeLoop == [starts |-> MaxReplays, votes |-> 0]

NextLoop ==
    \/ Play(G1, Requesters, {TrackA}, ScopeLoop)
    \/ Loop(G1, ScopeLoop)
    \/ Skip(G1, ScopeLoop)
    \/ Disconnect(G1, ScopeLoop)
    \/ PreviousButton(G1, ScopeLoop)
    \/ NaturalEnd(G1, ScopeLoop)
    \/ OnSongEnd(G1, ScopeLoop)

SpecLoop == Init /\ [][NextLoop]_vars

\* ------------------------------------------------------------------------
\* Properties
\* ------------------------------------------------------------------------
S(g) == GuildState(g)

NonAdmins(g) == members[g] \ Administrators

\* C1: a stop request is applied (queue cleared, loop mode reset, playback
\* stopped) only for an administrator or when the stop vote reaches the
\* threshold: a non-administrator's stop vote that stays below the threshold,
\* and a duplicate stop vote, leave the queue, the loop mode and the playing
\* track unchanged.
C1_StopOnlyWhenAuthorized ==
    \A g \in Guilds : \A u \in NonAdmins(g) :
        LET r == _stop_logic(S(g), u, Listeners(g), now) IN
        r.resp.result \in {"Added", "AlreadyVoted"} =>
            /\ r.queue = queues[g]
            /\ r.loop_state = loop_states[g]
            /\ r.player = player[g]

\* the fields of an item that persistence has to keep
StableTuple(song) ==
    <<song.url, song.title, song.duration, song.uploader, song.requester_id>>

\* C2: saving a queue of N items with save_queue_to_db and loading it with
\* load_queues_from_db yields N items in the same order with the same
\* (url, title, duration, uploader, requester_id), and saving the loaded
\* queue again stores the same data.
C2_RoundTrip ==
    \A g \in Guilds :
        LET saved == save_queue_to_db(S(g)).db
            loaded == load_queues_from_db([S(g) EXCEPT !.db = saved], members[g]).queue
        IN /\ Len(loaded) = Len(queues[g])
           /\ \A i \in 1..Len(loaded) : StableTuple(loaded[i]) = StableTuple(queues[g][i])
           /\ save_queue_to_db([S(g) EXCEPT !.queue = loaded]).db = saved

\* a Song built by load_queues_from_db: its data is a stored dict
IsLoaded(song) == "requester_id" \in DOMAIN song.data

\* C3: an item loaded back from persistence carries no stream locator, and
\* when play_next starts such an item it goes through from_url, never
\* through the fast path that plays a stored locator.
C3_LoadedItemsAreResolved ==
    \A g \in Guilds :
        /\ \A i \in 1..Len(db[g]) : LoadSong(db[g][i], members[g]).stream_url = None
        /\ \A i \in 1..Len(queues[g]) :
              IsLoaded(queues[g][i]) => queues[g][i].stream_url = None
        /\ (player[g].status # "none" /\ IsLoaded(player[g].song))
              => player[g].source = "from_url"

\* C4: with 5 non-bot listeners, a skip request of a non-administrator who
\* is not the requester of the current track leaves the track playing with
\* 1 of 3 required votes; the vote of the third distinct voter passes, the
\* track ends, the queue advances, and after on_song_end has run the guild's
\* skip-vote set is empty, whatever the length of the queue (0 included).
C4_SkipVoteOfFive ==
    \A g \in Guilds : \A u \in NonAdmins(g) \cap in_voice[g] :
        (/\ Listeners(g) = 5
         /\ connected[g] /\ is_playing(S(g)) /\ pending_end[g] = <<>>
         /\ u # player[g].requester /\ u \notin skip_votes[g])
        => LET r == _skip_logic(S(g), u, Listeners(g))
               after == on_song_end([r EXCEPT !.pending_end = Tail(@)],
                                    Head(r.pending_end), now)
           IN /\ skip_votes[g] = {} =>
                    /\ r.player = player[g]
                    /\ r.resp = VoteResp("skip", "Added", 1, 3)
              /\ Cardinality(skip_votes[g]) = 2 =>
                    /\ r.resp = VoteResp("skip", "Passed", 3, 3)
                    /\ r.player = NoPlayer
                    /\ r.pending_end = <<player[g].song>>
                    /\ queues[g] # <<>> => after.player.song = Head(queues[g])
                    /\ after.skip_votes = {}

\* the numbers of listeners a command may find in the voice channel
Ls == 0..MaxListeners

\* P holds of the outcome r of a command issued in state s
Outcome(P(_, _, _, _, _), s, action, key, L, result) ==
    \A r \in {result} : P(s, action, key, L, r)

\* P holds of the outcome of every vote-gated command that a member of g
\* can issue in the current state, for every number of listeners
ForAllOutcomes(g, P(_, _, _, _, _)) ==
    \A s \in {S(g)} : \A u \in members[g] : \A L \in Ls : \A inv \in {InVoice(g, u)} :
        /\ Outcome(P, s, "skip", <<>>, L, _skip_logic(s, u, L))
        /\ Outcome(P, s, "pause", <<>>, L, _pause_logic(s, u, L, now))
        /\ Outcome(P, s, "stop", <<>>, L, _stop_logic(s, u, L, now))
        /\ Outcome(P, s, "clear", <<>>, L, clear(s, u, inv, L))
        /\ Outcome(P, s, "disconnect", <<>>, L, disconnect(s, u, inv, L))
        /\ \A shuffled \in Shuffles(s.queue) :
              Outcome(P, s, "shuffle", <<>>, L, shuffle(s, u, inv, shuffled, L))
        /\ \A number \in 0..(MaxQueue + 1) :
              Outcome(P, s, "remove", <<number>>, L, remove(s, u, inv, number, L))
        /\ \A mode \in Modes :
              /\ Outcome(P, s, "loop", <<mode>>, L, loop(s, u, inv, mode, L))
              /\ Outcome(P, s, "loop", <<mode>>, L, _handle_vote(s, u, inv, mode, L))

\* the vote set (over all sub-keys) of an action in guild state s
VotesOf(s, action) ==
    CASE action = "skip" -> s.skip_votes
      [] action = "pause" -> s.pause_votes
      [] action = "stop" -> s.stop_votes
      [] action = "clear" -> s.clear_votes
      [] action = "shuffle" -> s.shuffle_votes
      [] action = "disconnect" -> s.disconnect_votes
      [] action = "remove" -> s.remove_votes
      [] action = "loop" -> s.loop_votes

VoteActions ==
    {"skip", "pause", "stop", "clear", "shuffle", "disconnect", "remove", "loop"}

ThresholdIsMajority(s, action, key, L, r) ==
    r.resp.result \in {"Added", "Passed"} =>
        /\ 2 * r.resp.required > L
        /\ 2 * (r.resp.required - 1) <= L
        /\ L <= 1 => r.resp.required = 1
        /\ r.resp.result = "Passed" <=> r.resp.votes >= r.resp.required

\* C5: for every vote-gated action (skip, pause, stop, shuffle, remove,
\* clear, disconnect, loop) the number of votes required when a vote is cast
\* is floor(L/2)+1 for the L non-bot members the command finds in the voice
\* channel at that call, which is 1 for L = 0 and L = 1; the vote passes
\* exactly when the voters reach that number.  Stated of the guild whose
\* commands the specifications follow, for every member and every L in Ls.
C5_Threshold == ForAllOutcomes(G1, ThresholdIsMajority)

\* a skip vote is on record and the vote of a second member reaches the
\* threshold of the three listeners in the channel
C5_Witness ==
    /\ Listeners(G1) = 3
    /\ skip_votes[G1] # {}
    /\ \E u \in NonAdmins(G1) :
          _skip_logic(S(G1), u, Listeners(G1)).resp = VoteResp("skip", "Passed", 2, 2)

DuplicateChangesNothing(s, action, key, L, r) ==
    r.resp.result = "AlreadyVoted" => [r EXCEPT !.resp = NoResp] = s

\* C6: for every guild, action and sub-key, the vote of a member who is
\* already in the vote set leaves the vote set and its count as they were
\* and does not apply the guarded action: nothing of the guild's state
\* changes.
C6_DuplicateVote == \A g \in Guilds : ForAllOutcomes(g, DuplicateChangesNothing)

\* the votes on record for the sub-keys other than key
OtherKeys(votes, key) == {v \in votes : v[1] # key[1]}

PassResetsOnlyKey(s, action, key, L, r) ==
    (r.resp.result = "Passed" /\ action \in {"remove", "loop"}) =>
        /\ VotersOf(VotesOf(r, action), key[1]) = {}
        /\ OtherKeys(VotesOf(r, action), key) = OtherKeys(VotesOf(s, action), key)

\* C7 as stated: a passing vote for a keyed action resets only the vote set
\* of that sub-key; the vote sets for other positions (remove) and other
\* modes (loop) of the guild stay as they were.
C7_PassResetsOnlySubKey == \A g \in Guilds : ForAllOutcomes(g, PassResetsOnlyKey)

PassResetsAllKeys(s, action, key, L, r) ==
    (r.resp.result = "Passed" /\ action \in {"remove", "loop"}) =>
        /\ VotesOf(r, action) = {}
        /\ \A other \in VoteActions \ {action} :
              VotesOf(r, other) = VotesOf(s, other)

\* C7 amended: a passing vote for a keyed action resets the vote sets of
\* every sub-key of that guild and action (all positions for remove, all
\* modes for loop) and leaves the vote sets of the other actions unchanged.
\* Stated of the guild whose commands the specifications follow.
C7_PassResetsAllSubKeys == ForAllOutcomes(G1, PassResetsAllKeys)

\* a remove vote can pass while a vote for another position is on record
C7_Witness ==
    \E u \in members[G1], number \in 1..MaxQueue, L \in Ls :
        /\ remove(S(G1), u, InVoice(G1, u), number, L).resp.result = "Passed"
        /\ OtherKeys(remove_votes[G1], <<number>>) # {}

PassEmpties(s, action, key, L, r) ==
    (r.resp.result = "Passed" /\ action # "skip") => VotesOf(r, action) = {}

\* C8: after pause, stop, shuffle, remove, clear, disconnect or loop has
\* succeeded by vote, the guild's vote set for that action is empty, so a
\* later vote for it starts from no recorded voters.
C8_PassedVoteIsReset == \A g \in Guilds : ForAllOutcomes(g, PassEmpties)

BypassEmpties(s, action, key, L, r) ==
    (r.resp.result = "Forced" /\ VotesOf(s, action) # {}) =>
        VotesOf(r, action) = {}

\* C9: when an administrator (or the requester, where the command lets the
\* requester through) applies an action while votes for that action are
\* pending in the guild, the pending vote set of that action is emptied.
C9_BypassResetsVotes == \A g \in Guilds : ForAllOutcomes(g, BypassEmpties)

\* C10: whenever a new track starts playing in a guild, the guild's skip
\* and pause vote sets are empty.
C10_NewTrackStartsWithoutVotes ==
    [][\A g \in Guilds :
          starts'[g] > starts[g] => (skip_votes'[g] = {} /\ pause_votes'[g] = {})]_vars

\* the request was counted as a vote or applied the action
Counted(r) == r.resp.result \in {"Forced", "Added", "Passed"}

\* C11: a member who is not in the voice channel of the session can neither
\* cast a counted vote for skip, pause or stop nor bypass the vote, whether
\* the request is a command or a button of the player message: the request
\* is refused and changes nothing.
C11_OutsidersAreRefused ==
    \A g \in Guilds : \A s \in {S(g)} : \A u \in members[g] \ in_voice[g] :
        \A L \in {Listeners(g)} :
            \A r \in {_skip_logic(s, u, L), _pause_logic(s, u, L, now),
                      _stop_logic(s, u, L, now), skip_button(s, u, FALSE, L),
                      stop_button(s, u, FALSE, L, now),
                      play_pause_button(s, u, FALSE, L, now)} :
                /\ ~Counted(r)
                /\ [r EXCEPT !.resp = NoResp] = s

\* the request r added no voter to any vote set of state s
NoVoteAdded(s, r) == \A action \in VoteActions : VotesOf(r, action) \subseteq VotesOf(s, action)

\* u requested the item that is current in s
RequestedCurrent(s, u) == has_source(s) /\ s.player.song.requester_id = u

\* C12: a bypass principal (an administrator for every vote-gated action,
\* the requester of the current item for skip and pause, the requester of
\* the targeted item for remove) who is in the voice channel has the action
\* applied by that one request and is added to no vote set; an
\* administrator's clear leaves the queue and the stored queue empty.
C12_BypassAppliesAtOnce ==
    \A g \in Guilds : \A s \in {S(g)} : \A u \in members[g] \cap in_voice[g] :
      \A L \in {Listeners(g)} :
        /\ (s.connected /\ has_source(s) /\ (IsAdmin(u) \/ RequestedCurrent(s, u))) =>
              \A r \in {_skip_logic(s, u, L)} :
                  r.resp.result = "Forced" /\ r.player = NoPlayer /\ NoVoteAdded(s, r)
        /\ (s.connected /\ is_playing(s) /\ (IsAdmin(u) \/ RequestedCurrent(s, u))) =>
              \A r \in {_pause_logic(s, u, L, now)} :
                  r.resp.result = "Forced" /\ is_paused(r) /\ NoVoteAdded(s, r)
        /\ (s.connected /\ IsAdmin(u)) =>
              /\ \A r \in {_stop_logic(s, u, L, now)} :
                    /\ r.resp.result = "Forced" /\ NoVoteAdded(s, r)
                    /\ r.queue = <<>> /\ r.db = <<>>
                    /\ ~is_playing(r) /\ ~is_paused(r)
              /\ \A r \in {disconnect(s, u, TRUE, L)} :
                    r.resp.result = "Forced" /\ ~r.connected /\ NoVoteAdded(s, r)
              /\ s.queue # <<>> =>
                    \A r \in {clear(s, u, TRUE, L)} :
                        /\ r.resp.result = "Forced" /\ NoVoteAdded(s, r)
                        /\ r.queue = <<>> /\ r.db = <<>>
              /\ Len(s.queue) >= 2 =>
                    \A shuffled \in Shuffles(s.queue) :
                        \A r \in {shuffle(s, u, TRUE, shuffled, L)} :
                            /\ r.resp.result = "Forced" /\ NoVoteAdded(s, r)
                            /\ r.queue = shuffled
        /\ IsAdmin(u) =>
              \A mode \in Modes : \A r \in {loop(s, u, TRUE, mode, L)} :
                  r.resp.result = "Forced" /\ r.loop_state = mode /\ NoVoteAdded(s, r)
        /\ s.connected =>
              \A number \in 1..Len(s.queue) :
                  (IsAdmin(u) \/ s.queue[number].requester_id = u) =>
                      \A r \in {remove(s, u, TRUE, number, L)} :
                          /\ r.resp.result = "Forced" /\ NoVoteAdded(s, r)
                          /\ r.queue = PopAt(s.queue, number)

\* the state in which the oldest scheduled on_song_end task of g starts
AtSongEnd(g) == [S(g) EXCEPT !.pending_end = Tail(@)]

\* the queue after the loop logic of on_song_end, before play_next
Reinserted(s, finished) ==
    CASE s.loop_state = "song" -> <<finished>> \o s.queue
      [] s.loop_state = "queue" -> Append(s.queue, finished)
      [] s.loop_state = "off" -> s.queue

\* C13 as stated: after on_song_end the finished item is at queue position
\* 1 under loop mode song, at the tail of the queue under loop mode queue,
\* and under loop mode off it was not put in the queue and is the newest
\* entry of the history.
C13_FinishedItemStaysQueued ==
    \A g \in Guilds : pending_end[g] # <<>> =>
        \A s \in {AtSongEnd(g)} : \A f \in {Head(pending_end[g])} :
            \A r \in {on_song_end(s, f, now)} :
                /\ s.loop_state = "song" => (r.queue # <<>> /\ Head(r.queue) = f)
                /\ s.loop_state = "queue" => (r.queue # <<>> /\ r.queue[Len(r.queue)] = f)
                /\ s.loop_state = "off" =>
                      /\ Len(r.queue) <= Len(s.queue)
                      /\ r.history # <<>> /\ r.history[Len(r.history)] = f

\* C13 amended: on_song_end makes the finished item the newest entry of the
\* history and inserts it at position 1 (loop mode song), at the tail (loop
\* mode queue) or not at all (off); when the bot is still connected the
\* handler ends with play_next, which pops the head of that queue: under
\* loop mode song the finished item is then the item taken for playback and
\* the queue is as before the handler; when the bot is not connected the
\* item stays where it was inserted.
C13_FinishedItemIsReinsertedThenTaken ==
    \A g \in Guilds : pending_end[g] # <<>> =>
        \A s \in {AtSongEnd(g)} : \A f \in {Head(pending_end[g])} :
            \A r \in {on_song_end(s, f, now)} : \A q \in {Reinserted(s, f)} :
                /\ r.history = HistoryAppend(s.history, f)
                /\ r.queue = IF s.connected /\ q # <<>> THEN Tail(q) ELSE q
                /\ (s.connected /\ s.loop_state = "song" /\ ~is_playing(s)
                        /\ f.stream_url # None) =>
                      (is_playing(r) /\ r.player.song = f /\ r.queue = s.queue)

\* a track has ended under loop mode song while another item is queued
C13_Witness ==
    /\ pending_end[G1] # <<>> /\ connected[G1]
    /\ loop_states[G1] = "song" /\ queues[G1] # <<>>
    /\ Head(queues[G1]) # Head(pending_end[G1])

\* C14: a previous request made while the history holds fewer than two
\* entries is rejected: the history, the queue and the playing track (and
\* the rest of the tenant's state) are as before the request.
C14_PreviousNeedsTwoEntries ==
    \A s \in {S(G1)} : Len(s.history) < 2 =>
        \A u \in Users : \A inv \in BOOLEAN :
            \A r \in {previous_button(s, u, inv)} :
                /\ r.resp.result \in {"NoPrevious", "NotInVoice"}
                /\ r.history = s.history
                /\ r.queue = s.queue
                /\ r.player = s.player
                /\ [r EXCEPT !.resp = s.resp] = s

\* a track is playing after exactly one other track has finished
C14_Witness ==
    /\ Len(song_history[G1]) = 1 /\ connected[G1] /\ is_playing(S(G1))
    /\ \E u \in Users :
          previous_button(S(G1), u, TRUE).resp.result = "NoPrevious"

\* C15: an accepted previous request removes exactly the two most recent
\* history entries and puts both at the front of the queue in the order in
\* which they were played, the older one at position 1 and the newer one at
\* position 2, ahead of every item that was already queued.
C15_PreviousPrependsInPlayOrder ==
    \A s \in {S(G1)} : \A u \in Users : \A inv \in BOOLEAN :
        \A r \in {previous_button(s, u, inv)} :
            r.resp.result = "Previous" =>
                \A n \in {Len(s.history)} :
                    /\ n >= 2
                    /\ r.history = SubSeq(s.history, 1, n - 2)
                    /\ Len(r.queue) = Len(s.queue) + 2
                    /\ r.queue[1] = s.history[n - 1]
                    /\ r.queue[2] = s.history[n]
                    /\ SubSeq(r.queue, 3, Len(r.queue)) = s.queue

\* two different tracks have finished, a third item is queued, and a member
\* in the voice channel presses the previous button
C15_Witness ==
    /\ Len(song_history[G1]) >= 2 /\ queues[G1] # <<>>
    /\ song_history[G1][Len(song_history[G1])]
          # song_history[G1][Len(song_history[G1]) - 1]
    /\ \E u \in Users :
          previous_button(S(G1), u, TRUE).resp.result = "Previous"

\* C18: persistence is write-through: once a queue-mutating operation
\* (enqueue by play, pop by play_next, loop re-insertion, re-prepend by
\* previous, remove, clear, shuffle, stop, disconnect) has completed, the
\* persisted queue of the tenant equals its in-memory queue.
C18_PersistedQueueIsQueue ==
    \A g \in Guilds :
        resolving[g] = <<>> => db[g] = QueueData(queues[g])

\* SpecResolve: items that play_next has to resolve by from_url, under
\* every loop mode
ScopeResolve == [starts |-> MaxStarts, votes |-> 0]

NextResolve ==
    \/ Play(G1, Requesters, {TrackB}, ScopeResolve)
    \/ Loop(G1, ScopeResolve)
    \/ NaturalEnd(G1, ScopeResolve)
    \/ OnSongEnd(G1, ScopeResolve)
    \/ PlayNextResolved(G1, ScopeResolve)

SpecResolve == Init /\ [][NextResolve]_vars

\* SpecIdle: two guilds that play, pause and fall idle while the ticker runs
ScopeIdle == [starts |-> MaxStarts, votes |-> 0]

NextIdle ==
    \/ Play(G1, Administrators, {TrackA}, ScopeIdle)
    \/ Play(G2, Administrators, {TrackA}, ScopeIdle)
    \/ Pause(G1, ScopeIdle)
    \/ Pause(G2, ScopeIdle)
    \/ Resume(G1, ScopeIdle)
    \/ NaturalEnd(G1, ScopeIdle)
    \/ NaturalEnd(G2, ScopeIdle)
    \/ OnSongEnd(G1, ScopeIdle)
    \/ OnSongEnd(G2, ScopeIdle)
    \/ AutoDisconnect(ScopeIdle)

SpecIdle == Init /\ [][NextIdle]_vars

\* SpecIdleLive: one guild that falls idle; the ticker and the scheduled
\* on_song_end tasks always get to run
NextIdleLive ==
    \/ Play(G1, Administrators, {TrackA, NoData}, ScopeIdle)
    \/ Stop(G1, ScopeIdle)
    \/ NaturalEnd(G1, ScopeIdle)
    \/ OnSongEnd(G1, ScopeIdle)
    \/ AutoDisconnect(ScopeIdle)

SpecIdleLive ==
    /\ Init /\ [][NextIdleLive]_vars
    /\ WF_vars(AutoDisconnect(ScopeIdle))
    /\ WF_vars(OnSongEnd(G1, ScopeIdle))

\* SpecAlone: members and other bots come to and go from the voice channel
\* of a playing session
ScopeAlone == [starts |-> MaxStarts, votes |-> 0]

NextAlone ==
    \/ Play(G1, Administrators, {TrackA}, ScopeAlone)
    \/ NaturalEnd(G1, ScopeAlone)
    \/ OnSongEnd(G1, ScopeAlone)
    \/ JoinVoice(G1, ScopeAlone)
    \/ LeaveVoice(G1, ScopeAlone)
    \/ MoveVoice(G1, ScopeAlone)
    \/ BotJoins(G1, ScopeAlone)

SpecAlone == Init /\ [][NextAlone]_vars

\* SpecLeave: the four ways a session is disconnected: by an administrator,
\* by a passed vote, by the ticker and by the last member leaving voice
InitLeave ==
    /\ InitMemory
    /\ members = [g \in Guilds |-> {"admin", "u2"}]
    /\ in_voice = [g \in Guilds |-> {"admin", "u2"}]
    /\ extras = [g \in Guilds |-> 0]
    /\ other_bots = [g \in Guilds |-> 0]

ScopeLeave == [starts |-> MaxStarts + 1, votes |-> MaxVotes]

ScopeLeaveLoop == [starts |-> MaxStarts + 1, votes |-> 0]

NextLeave ==
    \/ Play(G1, Administrators, {TrackA}, ScopeLeave)
    \/ Loop(G1, ScopeLeaveLoop)
    \/ Disconnect(G1, ScopeLeave)
    \/ LeaveVoice(G1, ScopeLeave)
    \/ NaturalEnd(G1, ScopeLeave)
    \/ OnSongEnd(G1, ScopeLeave)
    \/ AutoDisconnect(ScopeLeave)

SpecLeave == InitLeave /\ [][NextLeave]_vars

\* SpecPlay: play requests to an idle, a playing and a paused session, for
\* tracks with and without a stream URL
ScopePlay == [starts |-> MaxStarts, votes |-> 0]

NextPlay ==
    \/ Play(G1, Requesters, Catalog, ScopePlay)
    \/ Pause(G1, ScopePlay)
    \/ NaturalEnd(G1, ScopePlay)
    \/ OnSongEnd(G1, ScopePlay)
    \/ PlayNextResolved(G1, ScopePlay)

SpecPlay == Init /\ [][NextPlay]_vars

\* SpecTwo: two guilds in session at the same time
ScopeTwo == [starts |-> MaxStarts + 1, votes |-> MaxVotes]

ScopeOther == [starts |-> MaxStarts, votes |-> MaxVotes]

NextTwo ==
    \/ Play(G1, Administrators, {TrackA}, ScopeTwo)
    \/ Play(G2, Administrators, {TrackA}, ScopeOther)
    \/ Skip(G1, ScopeTwo)
    \/ Skip(G2, ScopeOther)
    \/ Stop(G1, ScopeTwo)
    \/ Disconnect(G1, ScopeTwo)
    \/ PreviousButton(G1, ScopeTwo)
    \/ NaturalEnd(G1, ScopeTwo)
    \/ OnSongEnd(G1, ScopeTwo)
    \/ OnSongEnd(G2, ScopeOther)

SpecTwo == InitLeave /\ [][NextTwo]_vars

\* SpecTasks: the task board of two guilds; one user's list holds two
\* descriptions and loses any numbers, the other lists hold one description
\* and lose one number at a time
SingleNumbers == {indices \in IndexLists : Len(indices) = 1}

NextTasks ==
    \/ AddTask(G1, "u2", {"report", "slides"})
    \/ AddTask(G1, "u3", {"review"})
    \/ AddTask(G2, "u2", {"review"})
    \/ RemoveTask(G1, "u2", IndexLists)
    \/ RemoveTask(G1, "u3", SingleNumbers)
    \/ RemoveTask(G2, "u2", SingleNumbers)

SpecTasks == Init /\ [][NextTasks]_vars

\* SpecStale: stop and disconnect requests while play_next resolves a track
ScopeStale == [starts |-> MaxStarts, votes |-> MaxVotes]

NextStale ==
    \/ Play(G1, Administrators, Catalog, ScopeStale)
    \/ Stop(G1, ScopeStale)
    \/ Disconnect(G1, ScopeStale)
    \/ PlayNextResolved(G1, ScopeStale)
    \/ NaturalEnd(G1, ScopeStale)
    \/ OnSongEnd(G1, ScopeStale)

SpecStale == Init /\ [][NextStale]_vars

\* SpecSaveFail: tracks end while the database may refuse the write of
\* on_song_end
ScopeSaveFail == [starts |-> MaxStarts + 1, votes |-> 0]

NextSaveFail ==
    \/ Play(G1, Requesters, {TrackA}, ScopeSaveFail)
    \/ Skip(G1, ScopeSaveFail)
    \/ NaturalEnd(G1, ScopeSaveFail)
    \/ OnSongEnd(G1, ScopeSaveFail)
    \/ OnSongEndSaveFails(G1, ScopeSaveFail)

SpecSaveFail == Init /\ [][NextSaveFail]_vars

\* SpecRemove: votes to remove a queue position while tracks end and the
\* queue advances
ScopeRemove == [starts |-> MaxStarts + 1, votes |-> MaxVotes]

NextRemove ==
    \/ Play(G1, Requesters, {TrackA}, ScopeRemove)
    \/ Remove(G1, ScopeRemove)
    \/ NaturalEnd(G1, ScopeRemove)
    \/ OnSongEnd(G1, ScopeRemove)

SpecRemove == Init /\ [][NextRemove]_vars

\* SpecSearch: play commands whose searches are in flight while tracks end;
\* every track ends, on_song_end runs and every search returns
ScopeSearch == [starts |-> MaxRequests, votes |-> 0]

NextSearch ==
    \/ PlayReceived(G1, Requesters, {TrackA}, ScopeSearch)
    \/ PlaySearched(G1, ScopeSearch)
    \/ NaturalEnd(G1, ScopeSearch)
    \/ OnSongEnd(G1, ScopeSearch)

SpecSearch ==
    /\ Init
    /\ [][NextSearch]_vars
    /\ WF_vars(PlaySearched(G1, ScopeSearch))
    /\ WF_vars(NaturalEnd(G1, ScopeSearch))
    /\ WF_vars(OnSongEnd(G1, ScopeSearch))

\* SpecPlaylist: playlists processed in the background while the session
\* is disconnected
ScopePlaylist == [starts |-> MaxStarts + 1, votes |-> 0]

NextPlaylist ==
    \/ PlayPlaylist(G1, Requesters, {TrackA, NoData}, ScopePlaylist)
    \/ ProcessPlaylist(G1, ScopePlaylist)
    \/ Disconnect(G1, ScopePlaylist)
    \/ NaturalEnd(G1, ScopePlaylist)
    \/ OnSongEnd(G1, ScopePlaylist)

SpecPlaylist == Init /\ [][NextPlaylist]_vars

\* SpecTicker: the inactivity ticker with its await between the check and
\* the disconnect, while play requests arrive
ScopeTicker == [starts |-> MaxStarts + 1, votes |-> 0]

NextTicker ==
    \/ Play(G1, Administrators, {TrackA}, ScopeTicker)
    \/ Pause(G1, ScopeTicker)
    \/ NaturalEnd(G1, ScopeTicker)
    \/ OnSongEnd(G1, ScopeTicker)
    \/ TickerChecks(G1, ScopeTicker)
    \/ TickerDisconnects(G1, ScopeTicker)

SpecTicker == Init /\ [][NextTicker]_vars

\* SpecQueue: play, remove, shuffle, clear
NextQueue ==
    \/ Play(G1, Requesters, {TrackA}, Scope)
    \/ Remove(G1, Scope)
    \/ Shuffle(G1, Scope)
    \/ Clear(G1, Scope)

SpecQueue == Init /\ [][NextQueue]_vars

\* the numbers a remove command is tried with
RemoveNumbers == (0 - 1)..(MaxQueue + 3)

\* C16: a remove command whose number is 0, negative or greater than the
\* queue length fails: the queue, the persisted queue and every remove vote
\* set (with the rest of the tenant's state) are unchanged.
C16_InvalidRemoveChangesNothing ==
    \A s \in {S(G1)} : \A u \in Users : \A inv \in BOOLEAN :
        \A number \in RemoveNumbers : \A L \in Ls :
            ~(1 <= number /\ number <= Len(s.queue)) =>
                \A r \in {remove(s, u, inv, number, L)} :
                    /\ r.resp.result \in {"QueueEmpty", "InvalidNumber"}
                    /\ r.queue = s.queue
                    /\ r.db = s.db
                    /\ r.remove_votes = s.remove_votes
                    /\ [r EXCEPT !.resp = s.resp] = s

\* a remove vote is on record for a queued item and a remove command names
\* the position just past the end of the queue
C16_Witness ==
    /\ queues[G1] # <<>> /\ remove_votes[G1] # {}
    /\ \E u \in Users :
          remove(S(G1), u, TRUE, Len(queues[G1]) + 1, Listeners(G1)).resp.result
              = "InvalidNumber"

\* C17: a shuffle command on a queue of fewer than two items is rejected
\* whoever issues it, administrators included: the queue, the persisted
\* queue and the shuffle votes (with the rest of the tenant's state) are
\* unchanged.
C17_ShortQueueIsNotShuffled ==
    \A s \in {S(G1)} : Len(s.queue) < 2 =>
        \A u \in Users : \A inv \in BOOLEAN : \A L \in Ls :
            \A shuffled \in Shuffles(s.queue) :
                \A r \in {shuffle(s, u, inv, shuffled, L)} :
                    /\ r.resp.result = "TooShort"
                    /\ r.queue = s.queue
                    /\ r.db = s.db
                    /\ r.shuffle_votes = s.shuffle_votes
                    /\ [r EXCEPT !.resp = s.resp] = s

\* one item is queued while a track plays, and an administrator in the voice
\* channel asks for a shuffle
C17_Witness ==
    /\ Len(queues[G1]) = 1 /\ connected[G1] /\ is_playing(S(G1))
    /\ InVoice(G1, Admin)
    /\ shuffle(S(G1), Admin, TRUE, queues[G1], Listeners(G1)).resp.result = "TooShort"

\* the state in which play_next resumes after the oldest pending from_url
AtResolved(g) == [S(g) EXCEPT !.resolving = Tail(@)]

\* the number of times the notice n was sent
Sent(notice, n) == Cardinality({i \in 1..Len(notice) : notice[i] = n})

\* C19: when the resolution of a popped item fails inside play_next, the
\* item is not retried, not put back in the queue and not added to the
\* history, whatever the loop mode; the failure is reported exactly once
\* and play_next goes on to the next queued item; when no item is left and
\* nothing else plays (every queued item failed), the tenant ends idle with
\* an empty queue and the inactivity mark set.
C19_FailedItemIsDropped ==
    resolving[G1] # <<>> =>
        \A s \in {AtResolved(G1)} : \A song \in {Head(resolving[G1])} :
            \A r \in {play_next_resolved(s, song, FALSE, now)} :
                \A going \in {s.connected /\ s.queue # <<>>} :
                    /\ r.history = s.history
                    /\ r.queue = IF going THEN Tail(s.queue) ELSE s.queue
                    /\ Sent(r.notice, "PlaybackError") = 1
                    /\ r.resolving \in
                          {s.resolving} \cup
                          (IF going THEN {Append(s.resolving, Head(s.queue))} ELSE {})
                    /\ r.starts > s.starts => r.player.song = Head(s.queue)
                    /\ going =>
                          \/ r.resolving = Append(s.resolving, Head(s.queue))
                          \/ is_playing(r) /\ r.player.song = Head(s.queue)
                          \/ is_playing(s)
                    /\ (s.connected /\ s.queue = <<>> /\ ~is_playing(s) /\ ~is_paused(s)) =>
                          /\ r.queue = <<>>
                          /\ r.inactive_since = now
                          /\ ~is_playing(r) /\ ~is_paused(r)

\* an item is being resolved under loop mode song or queue while another
\* item waits in the queue
C19_Witness ==
    /\ resolving[G1] # <<>> /\ connected[G1]
    /\ loop_states[G1] # "off" /\ queues[G1] # <<>>

\* the inactivity mark of g is at least the timeout old at time t
MarkExpired(g, t) ==
    inactive_since[g] # NoMark /\ t - inactive_since[g] >= INACTIVITY_TIMEOUT_SECONDS

\* C20: at each run of the inactivity ticker, every tenant whose inactivity
\* mark is at least the timeout (120) old and whose session is not playing,
\* idle or paused alike, is disconnected.
C20_TickerDisconnectsIdleAndPaused ==
    [][now' # now =>
          \A g \in Guilds :
              (MarkExpired(g, now') /\ connected[g] /\ ~is_playing(S(g)))
                  => ~connected'[g]]_vars

\* g is connected, neither playing nor paused, and no on_song_end or
\* resolution of g is still to run
IdleConnected(g) ==
    /\ connected[g] /\ ~is_playing(S(g)) /\ ~is_paused(S(g))
    /\ pending_end[g] = <<>> /\ resolving[g] = <<>>

\* the values an inactivity mark can take
Marks == {NoMark} \cup {TickSeconds * i : i \in 0..MaxTicks}

\* the last time from which a mark set now expires within the ticker's runs
LastCall == TickSeconds * MaxTicks - (INACTIVITY_TIMEOUT_SECONDS + TickSeconds)

\* C21: a tenant that is connected, neither playing nor paused, and that
\* receives no further request (its inactivity mark is not set again) is
\* eventually disconnected by the inactivity ticker, however it became idle.
C21_IdleIsEventuallyDisconnected ==
    \A m \in Marks :
        [](  (IdleConnected(G1) /\ inactive_since[G1] = m /\ now <= LastCall)
          => <>(~IdleConnected(G1) \/ inactive_since[G1] # m))

\* C22: whenever the voice channel of a session becomes empty of non-bot
\* members, because the last of them leaves voice or moves to another
\* channel, with or without other bots remaining, the session is ended: the
\* bot is disconnected and the disconnect cleanup has emptied the queue.
C22_EmptyChannelEndsSession ==
    [][\A g \in Guilds :
          (connected[g] /\ Listeners(g) > 0
              /\ Cardinality(in_voice'[g]) + extras'[g] = 0)
          => (~connected'[g] /\ queues'[g] = <<>>)]_vars

\* C23: whenever a disconnect is applied to a tenant (by an administrator,
\* by a passed vote, by the inactivity ticker or because the channel
\* emptied), its in-memory queue and its persisted queue are empty
\* afterwards, its loop mode is off, its inactivity mark is cleared, and its
\* history is as it was.
C23_DisconnectCleansUp ==
    [][\A g \in Guilds :
          (connected[g] /\ ~connected'[g]) =>
              /\ queues'[g] = <<>>
              /\ db'[g] = <<>>
              /\ loop_states'[g] = "off"
              /\ inactive_since'[g] = NoMark
              /\ song_history'[g] = song_history[g]]_vars

\* a session with a queued item, a loop mode and a history, about to be
\* disconnected by an administrator
C23_Witness ==
    /\ connected[G1] /\ queues[G1] # <<>> /\ db[G1] # <<>>
    /\ loop_states[G1] # "off" /\ song_history[G1] # <<>>
    /\ InVoice(G1, Admin)
    /\ disconnect(S(G1), Admin, TRUE, Listeners(G1)).resp.result = "Forced"

\* C24: in every reachable state a tenant whose session is paused has an
\* inactivity mark and a tenant whose session is playing has none.
C24_MarkFollowsPlayback ==
    \A g \in Guilds :
        /\ is_paused(S(g)) => inactive_since[g] # NoMark
        /\ is_playing(S(g)) => inactive_since[g] = NoMark

\* was_playing of play, as the request is received
WasPlaying(s) == s.connected /\ (is_playing(s) \/ is_paused(s))

\* C25: a play request with a resolvable query appends the item to the
\* queue and persists it; when a track was playing or paused as the request
\* was received it does nothing else, and the player is undisturbed; when
\* none was, play_next runs once: it takes the head of the queue and either
\* starts it or sets out to resolve it.
C25_PlayEnqueuesAndStartsWhenIdle ==
    \A s \in {S(G1)} : \A u \in Requesters : \A track \in Catalog :
        \A r \in {play(s, u, TRUE, track, now)} :
            \A q \in {Append(s.queue, SearchSong(track, u))} :
                /\ r.connected
                /\ WasPlaying(s) =>
                      /\ r.resp.result = "AddedToQueue"
                      /\ r.queue = q /\ r.db = QueueData(q)
                      /\ r.player = s.player /\ r.starts = s.starts
                      /\ r.resolving = s.resolving
                      /\ r.pending_end = s.pending_end
                      /\ r.inactive_since = s.inactive_since
                /\ ~WasPlaying(s) =>
                      /\ r.queue = Tail(q)
                      /\ \/ /\ is_playing(r) /\ r.player.song = Head(q)
                            /\ r.starts = s.starts + 1
                            /\ r.resolving = s.resolving
                            /\ r.db = QueueData(Tail(q))
                         \/ /\ Head(q).stream_url = None
                            /\ r.resolving = Append(s.resolving, Head(q))
                            /\ r.starts = s.starts /\ r.player = s.player
                            /\ r.db = QueueData(q)

\* a play request reaches a paused session with an item in its queue
C25_Witness ==
    /\ connected[G1] /\ is_paused(S(G1)) /\ queues[G1] # <<>>
    /\ \E u \in Requesters :
          play(S(G1), u, TRUE, TrackB, now).resp.result = "AddedToQueue"

\* the outcomes of every command and button that u can issue in state s
Requests(s, u, inv, L, t) ==
    {_skip_logic(s, u, L), _pause_logic(s, u, L, t), _stop_logic(s, u, L, t),
     clear(s, u, inv, L), disconnect(s, u, inv, L),
     previous_button(s, u, inv), play_pause_button(s, u, inv, L, t),
     stop_button(s, u, inv, L, t), skip_button(s, u, inv, L)}
    \cup {shuffle(s, u, inv, shuffled, L) : shuffled \in Shuffles(s.queue)}
    \cup {remove(s, u, inv, number, L) : number \in RemoveNumbers}
    \cup {loop(s, u, inv, mode, L) : mode \in Modes}

\* C26: every skip, pause, stop, shuffle, remove, clear, disconnect or loop
\* command and every press of a player button (previous, play/pause, stop,
\* skip) is answered with a response to the requester, in every session
\* state.
C26_EveryRequestIsAnswered ==
    \A s \in {S(G1)} : \A u \in Users : \A inv \in BOOLEAN :
        \A r \in Requests(s, u, inv, Listeners(G1), now) :
            r.resp # NoResp

Keeping(list, numbers) ==
    LET F[i \in 0..Len(list)] ==
            IF i = 0 THEN <<>>
            ELSE IF i \in numbers THEN F[i - 1] ELSE Append(F[i - 1], list[i])
    IN F[Len(list)]

\* the board with the list of user u in guild g replaced, and without
\* empty lists and guilds without lists
BoardWith(all_tasks, g, u, list) ==
    LET at(h, v) == IF <<h, v>> = <<g, u>> THEN list ELSE all_tasks[h][v]
        users(h) == {v \in DOMAIN all_tasks[h] : Len(at(h, v)) > 0}
    IN [h \in {k \in DOMAIN all_tasks : users(k) # {}} |-> [v \in users(h) |-> at(h, v)]]

\* what claim C28 says of one remove_task command; the expected board
\* depends on the set of the given numbers alone, neither on their order
\* nor on their repetition
RemovesExactly(tb, g, u, indices) ==
    \A before \in {user_tasks(tb.tasks, g, u)},
       r \in {remove_task(tb, g, u, indices)} :
        LET valid == {indices[i] : i \in 1..Len(indices)} \cap (1..Len(before))
        IN /\ valid = {} =>
                  (r.tasks = tb.tasks /\ r.saves = 0 /\ r.saved_tasks = tb.saved_tasks)
           /\ valid # {} =>
                  /\ r.tasks = BoardWith(tb.tasks, g, u, Keeping(before, valid))
                  /\ r.saves = 1
                  /\ r.saved_tasks = save_tasks(r.tasks)

\* C28: remove_task removes exactly the requester's tasks at the given
\* 1-based positions as numbered before the command, whatever the order and
\* duplication of the numbers, keeps the other tasks in their order, removes
\* and saves nothing for out-of-range numbers, and deletes the user's entry
\* and then the guild's entry when they become empty
C28_RemoveTaskRemovesExactly ==
    \A g \in Guilds, u \in Users, indices \in IndexLists :
        RemovesExactly(BoardState, g, u, indices)

\* a full list next to another user's list, from which remove_task takes
\* the last and the first task when given their numbers in either order or
\* twice, and nothing when given a number beyond the list
C28_Witness ==
    /\ Len(user_tasks(tasks, G1, "u2")) = MaxTasks
    /\ user_tasks(tasks, G1, "u2")[1].task # user_tasks(tasks, G1, "u2")[2].task
    /\ Len(user_tasks(tasks, G1, "u3")) > 0
    /\ G2 \notin DOMAIN tasks
    /\ \A indices \in {<<MaxTasks, 1>>, <<1, MaxTasks>>, <<1, 1>>} :
           /\ Len(user_tasks(remove_task(BoardState, G1, "u2", indices).tasks, G1, "u2"))
                  < MaxTasks
           /\ remove_task(BoardState, G1, "u2", indices).saves = 1
    /\ remove_task(BoardState, G1, "u2", <<MaxTasks + 1, 0>>).saves = 0
    /\ G1 \notin DOMAIN remove_task(BoardState, G1, "u3", <<1>>).tasks
           <=> "u2" \notin DOMAIN tasks[G1]

\* an execution of play_next is suspended at its await of from_url
Suspended(g) == resolving[g] # <<>>

\* C29: transitions of one guild are serialized: while an execution of
\* play_next is suspended at an await, no other execution of play_next
\* suspends too or starts a track, whether it comes from a play request or
\* from on_song_end
C29_TransitionsAreSerialized ==
    [][\A g \in Guilds :
          Suspended(g) =>
              /\ Len(resolving'[g]) <= Len(resolving[g])
              /\ resolving'[g] = resolving[g] => starts'[g] = starts[g]]_vars

\* the items play_next took from the queue that have not ended: the track
\* of the voice client and the items suspended in from_url
TakenFromQueue(g) ==
    (IF connected[g] /\ player[g].status \in {"playing", "paused"} THEN 1 ELSE 0)
        + Len(resolving[g])

MovedOn(g) == Suspended(g) /\ inactive_since[g] # NoMark

\* C31: a resolution that completes after the session moved on is
\* discarded: when from_url returns in a session that was stopped since
\* play_next took the item, no track starts
C31_StaleResolutionIsDiscarded ==
    [][\A g \in Guilds :
          (MovedOn(g) /\ resolving'[g] = Tail(resolving[g])) => starts'[g] = starts[g]]_vars

\* the session after on_song_end has run for the track that an accepted
\* previous request interrupted
AfterPrevious(r, t) ==
    on_song_end([r EXCEPT !.pending_end = Tail(@)], Head(r.pending_end), t)

\* C32: the advance forced by an accepted previous request applies no
\* finished-item handling to the interrupted track: the track is not
\* appended to the history, and the item at the front of the queue after
\* previous is the one that starts next
C32_PreviousSkipsFinishedHandling ==
    \A g \in Guilds :
        (connected[g] /\ is_playing(S(g)) /\ pending_end[g] = <<>>
            /\ Len(song_history[g]) >= 2)
        => \A r \in {previous_button(S(g), Admin, TRUE)} :
               /\ AfterPrevious(r, now).history = r.history
               /\ AfterPrevious(r, now).player.status = "playing"
               /\ AfterPrevious(r, now).player.song = Head(r.queue)

\* C33: a failed write to the database inside on_song_end does not stall the
\* session: when on_song_end has run for an ended track in a connected
\* session where nothing plays, the next queued track starts, or the queue
\* is empty and the session is marked inactive
C33_SaveFailureDoesNotStall ==
    [][\A g \in Guilds :
          (/\ pending_end[g] # <<>>
           /\ pending_end'[g] = Tail(pending_end[g])
           /\ connected[g] /\ ~is_playing(S(g)) /\ ~is_paused(S(g)))
          => \/ starts'[g] = starts[g] + 1
             \/ queues'[g] = <<>> /\ inactive_since'[g] # NoMark]_vars

\* C34: a vote to remove position n counts only toward the item that was at
\* position n when it was cast: a vote that stays recorded across a step
\* still finds the same item at its position
C34_RemoveVotesFollowTheItem ==
    [][\A g \in Guilds : \A v \in remove_votes[g] \cap remove_votes'[g] :
          /\ v[1] <= Len(queues'[g])
          /\ queues'[g][v[1]] = queues[g][v[1]]]_vars

\* the session after from_url has returned (ok) or raised for the item that
\* play_next took first
Resumed(g, ok) ==
    play_next_resolved([S(g) EXCEPT !.resolving = Tail(@)], Head(resolving[g]), ok, now)

\* C35: no queued item is silently dropped: an item that play_next took from
\* the queue starts playing or is reported as a playback error when its
\* resolution returns, also when another play_next ran in between
C35_NoItemIsSilentlyDropped ==
    \A g \in Guilds :
        Suspended(g) =>
            \A ok \in BOOLEAN : \A r \in {Resumed(g, ok)} :
                \/ r.starts = starts[g] + 1 /\ r.player.song = Head(resolving[g])
                \/ \E i \in 1..Len(r.notice) : r.notice[i] = "PlaybackError"

\* C36: every item enqueued by a play request eventually starts playing when
\* tracks end, searches return and nothing is stopped, cleared, removed or
\* disconnected: the queue does not stay non-empty forever
C36_EnqueuedItemEventuallyStarts ==
    (queues[G1] # <<>>) ~> (queues[G1] = <<>>)

\* C37: when previous is accepted while a track X is playing with loop mode
\* off, the next track to start is the one that played immediately before
\* X, and X is the item queued right after it
C37_PreviousReplaysThePreviousTrack ==
    \A g \in Guilds :
        (connected[g] /\ is_playing(S(g)) /\ pending_end[g] = <<>>
            /\ loop_states[g] = "off" /\ Len(song_history[g]) >= 2)
        => \A e \in {AfterPrevious(previous_button(S(g), Admin, TRUE), now)} :
               /\ e.player.status = "playing"
               /\ e.player.song = song_history[g][Len(song_history[g])]
               /\ e.queue # <<>>
               /\ Head(e.queue) = player[g].song

\* C38: after a disconnect the queue and the persisted queue of the guild
\* stay empty until a new play request: while the guild has no voice
\* connection both are empty, whatever a background playlist task does
C38_QueueStaysEmptyAfterDisconnect ==
    \A g \in Guilds : ~connected[g] => (queues[g] = <<>> /\ db[g] = <<>>)

\* C39: votes never carry over between sessions: while a guild has no voice
\* connection, every vote set of the guild is empty
C39_NoVotesAcrossSessions ==
    \A g \in Guilds : ~connected[g] => TotalVotes(g) = 0

\* C40: the inactivity ticker never disconnects a guild whose session is
\* playing or paused at the moment the disconnect is applied
C40_TickerSparesActiveSessions ==
    [][\A g \in Guilds :
          (g \in announcing /\ g \notin announcing')
          => ~(is_playing(S(g)) \/ is_paused(S(g)))]_vars

====
